---------------------------- MODULE Spec2Model ----------------------------
(***************************************************************************)
(* A model of trello-report-mcp: the period resolver, the activity        *)
(* aggregator, the card groupings, the board listing, the renderers, the   *)
(* API client and the invocations of generateReport and of the tools.      *)
(*                                                                         *)
(* The specifications share the variables below; each one draws the        *)
(* inputs of the functions it applies in its Init and leaves the other     *)
(* variables at their idle values.                                         *)
(*   SpecPeriod      getDateRangeForPeriod                                  *)
(*   SpecActivity    calculateBoardActivity                                 *)
(*   SpecCards       groupCardsByLabel, findTopCards                        *)
(*   SpecBoards      listBoards                                             *)
(*   SpecRender      generateReportSummary, generateMarkdownReport          *)
(*   SpecSubsets     the card subsets and the most active list, rendered    *)
(*   SpecServer      the client, generateReport and the tools' handlers     *)
(*   SpecConcurrent  two interleaved invocations of generateReport          *)
(*   SpecLargeBoard  generateReport on a board at the top cards' limit      *)
(***************************************************************************)
EXTENDS Integers, Sequences, FiniteSets, TLC

VARIABLES
    pc,            \* position of the specification's run
    period,        \* ReportPeriod handed to getDateRangeForPeriod
    currentYear,   \* what new Date().getFullYear() answers
    dateRange,     \* DateRange returned by getDateRangeForPeriod
    lists,         \* TrelloList[] fetched for the board
    cards,         \* TrelloCard[] fetched for the board
    labels,        \* TrelloLabel[] fetched for the board
    actions,       \* TrelloAction[] fetched for the board and range
    inputs0,       \* the collections as they were fetched
    activity,      \* BoardActivity of the latest calculateBoardActivity run
    firstActivity, \* BoardActivity of the first calculateBoardActivity run
    runs,          \* number of calculateBoardActivity runs so far
    cardsByLabel,  \* activity.cardsByLabel
    topCards,      \* activity.topCards
    boards,        \* TrelloBoard[] answered by trelloApi.getBoards()
    searchTerm,    \* argument of listBoards
    boardsResult,  \* TrelloBoard[] returned by listBoards
    format,        \* format handed to the renderers
    markdown,      \* what the renderer returned
    env,           \* process.env: TRELLO_API_KEY and TRELLO_API_TOKEN
    client,        \* the trelloApi singleton of the api module
    inv,           \* the invocations of a tool or of generateReport
    requests       \* per invocation, the requests get() has issued, in order

vars == <<pc, period, currentYear, dateRange, lists, cards, labels, actions,
          inputs0, activity, firstActivity, runs, cardsByLabel, topCards,
          boards, searchTerm, boardsResult, format, markdown, env, client,
          inv, requests>>

periodVars == <<period, currentYear, dateRange>>
boardVars == <<lists, cards, labels, actions, inputs0>>
activityVars == <<activity, firstActivity, runs>>
cardVars == <<cardsByLabel, topCards>>
listBoardsVars == <<boards, searchTerm, boardsResult>>
renderVars == <<format, markdown>>
serverVars == <<env, client, inv, requests>>

\* JavaScript's undefined, for an optional field or argument that is absent.
Undefined == "undefined"

Min(a, b) == IF a < b THEN a ELSE b

(***************************************************************************)
(* Calendar: a Date is modelled by its local civil fields, as the getters  *)
(* getFullYear, getMonth (0..11), getDate, getHours, ... return them.       *)
(***************************************************************************)

\* Bounds of the years a period is drawn from.
MinYear == 2015
MaxYear == 2026

Years == MinYear..MaxYear

IsLeapYear(y) == (y % 4 = 0 /\ y % 100 # 0) \/ y % 400 = 0

DaysInMonth(y, m) ==
    IF m = 1 THEN (IF IsLeapYear(y) THEN 29 ELSE 28)
    ELSE IF m \in {3, 5, 8, 10} THEN 30 ELSE 31

\* new Date(year, monthIndex, day): local midnight; a year 0..99 means 1900+year.
NewDate(y, m, d) ==
    [year |-> IF y >= 0 /\ y <= 99 THEN 1900 + y ELSE y,
     month |-> m, date |-> d, hours |-> 0, minutes |-> 0, seconds |-> 0, ms |-> 0]

\* date-fns startOfYear: January 1st, 00:00:00.000 of the date's year.
startOfYear(date) ==
    [year |-> date.year, month |-> 0, date |-> 1,
     hours |-> 0, minutes |-> 0, seconds |-> 0, ms |-> 0]

\* A defect of endOfYear: the last day of the year without its time of day.
endOfYearMidnight(date) ==
    [year |-> date.year, month |-> 11, date |-> 31,
     hours |-> 0, minutes |-> 0, seconds |-> 0, ms |-> 0]

\* date-fns endOfYear: December 31st, 23:59:59.999 of the date's year.
endOfYear(date) ==
    [year |-> date.year, month |-> 11, date |-> 31,
     hours |-> 23, minutes |-> 59, seconds |-> 59, ms |-> 999]

\* date-fns addMonths: the same day of the month `amount` months later, clipped
\* to the last day of that month; the time of day is kept.
addMonths(date, amount) ==
    LET t == date.month + amount
        y == date.year + (t \div 12)
        m == t % 12
    IN  [date EXCEPT !.year = y, !.month = m,
                     !.date = Min(date.date, DaysInMonth(y, m))]

\* The calendar day before `date`, same time of day.
PrevDay(date) ==
    IF date.date > 1 THEN [date EXCEPT !.date = date.date - 1]
    ELSE IF date.month > 0
         THEN [date EXCEPT !.month = date.month - 1,
                           !.date = DaysInMonth(date.year, date.month - 1)]
         ELSE [date EXCEPT !.year = date.year - 1, !.month = 11, !.date = 31]

\* date-fns subDays: `amount` calendar days earlier, same time of day.
RECURSIVE subDays(_, _)
subDays(date, amount) ==
    IF amount = 0 THEN date ELSE PrevDay(subDays(date, amount - 1))

\* The calendar day after `date`, at 00:00:00.000.
NextDayStart(date) ==
    IF date.date < DaysInMonth(date.year, date.month)
    THEN NewDate(date.year, date.month, date.date + 1)
    ELSE IF date.month < 11 THEN NewDate(date.year, date.month + 1, 1)
         ELSE NewDate(date.year + 1, 0, 1)

\* The instant one millisecond after `date` (Date.getTime() + 1).
NextInstant(date) ==
    IF date.ms < 999 THEN [date EXCEPT !.ms = date.ms + 1]
    ELSE IF date.seconds < 59 THEN [date EXCEPT !.seconds = date.seconds + 1, !.ms = 0]
    ELSE IF date.minutes < 59
         THEN [date EXCEPT !.minutes = date.minutes + 1, !.seconds = 0, !.ms = 0]
    ELSE IF date.hours < 23
         THEN [date EXCEPT !.hours = date.hours + 1, !.minutes = 0,
                           !.seconds = 0, !.ms = 0]
    ELSE NextDayStart(date)

\* Milliseconds since local midnight.
TimeOfDay(date) ==
    ((date.hours * 60 + date.minutes) * 60 + date.seconds) * 1000 + date.ms

\* a is an earlier instant than b (Date.getTime() order).
Before(a, b) ==
    \/ a.year < b.year
    \/ a.year = b.year /\ a.month < b.month
    \/ a.year = b.year /\ a.month = b.month /\ a.date < b.date
    \/ a.year = b.year /\ a.month = b.month /\ a.date = b.date
         /\ TimeOfDay(a) < TimeOfDay(b)

PeriodTypes == {"Q1", "Q2", "Q3", "Q4", "year"}
Quarters == <<"Q1", "Q2", "Q3", "Q4">>

\* A year of 0 stands for an absent (falsy) year.
NoYear == 0

quarterMap == [t \in {"Q1", "Q2", "Q3", "Q4"} |->
                  CASE t = "Q1" -> 0 [] t = "Q2" -> 3 [] t = "Q3" -> 6 [] t = "Q4" -> 9]

getDateRangeForPeriod(p) ==
    LET targetYear == IF p.year # NoYear THEN p.year ELSE currentYear
    IN  IF p.type = "year"
        THEN [start |-> startOfYear(NewDate(targetYear, 0, 1)),
              end   |-> endOfYear(NewDate(targetYear, 0, 1))]
        ELSE LET quarterStartMonth == quarterMap[p.type]
                 start == NewDate(targetYear, quarterStartMonth, 1)
                 end == subDays(addMonths(start, 3), 0)
             IN  [start |-> start, end |-> end]


(***************************************************************************)
(* A JavaScript Map: its entries in insertion order. set() on a key that    *)
(* is present replaces the value in place, on a new key appends an entry.   *)
(***************************************************************************)

MapHas(m, k) == \E i \in 1..Len(m) : m[i].key = k

\* get() of a key that is present.
MapGet(m, k) == m[CHOOSE i \in 1..Len(m) : m[i].key = k].value

\* (map.get(k) || 0)
MapGetOr0(m, k) == IF MapHas(m, k) THEN MapGet(m, k) ELSE 0

MapSet(m, k, v) ==
    IF MapHas(m, k)
    THEN [i \in 1..Len(m) |-> IF m[i].key = k THEN [key |-> k, value |-> v] ELSE m[i]]
    ELSE Append(m, [key |-> k, value |-> v])

\* map.set(k, (map.get(k) || 0) + 1)
MapIncrement(m, k) == MapSet(m, k, MapGetOr0(m, k) + 1)

MapKeys(m) == {m[i].key : i \in 1..Len(m)}

\* The sum of the values of the first i entries.
RECURSIVE SumValues(_, _)
SumValues(m, i) == IF i = 0 THEN 0 ELSE SumValues(m, i - 1) + m[i].value

(***************************************************************************)
(* calculateBoardActivity                                                  *)
(***************************************************************************)

\* Longest event collection drawn.
MaxEvents == 2

\* Sequences over S of length at most n.
SeqsUpTo(S, n) == UNION {[1..k -> S] : k \in 0..n}

\* Sequences of distinct elements of S, in every order.
DistinctSeqs(S) ==
    {q \in SeqsUpTo(S, Cardinality(S)) : \A i, j \in 1..Len(q) : i # j => q[i] # q[j]}

\* The inner map of cardFlow for one list: every other list, at zero.
RECURSIVE InitialFlowMap(_, _, _)
InitialFlowMap(ls, listId, i) ==
    IF i = 0 THEN <<>>
    ELSE LET flowMap == InitialFlowMap(ls, listId, i - 1)
         IN  IF ls[i].id # listId THEN MapSet(flowMap, ls[i].id, 0) ELSE flowMap

\* A defect of InitializeLists: the counters are seeded, the flow maps are not.
RECURSIVE InitializeListActivityOnly(_, _, _)
InitializeListActivityOnly(a, ls, i) ==
    IF i = 0 THEN a
    ELSE LET b == InitializeListActivityOnly(a, ls, i - 1)
         IN  [b EXCEPT !.listActivity = MapSet(b.listActivity, ls[i].id, 0)]

\* listActivity and cardFlow after the first i lists are initialized.
RECURSIVE InitializeLists(_, _, _)
InitializeLists(a, ls, i) ==
    IF i = 0 THEN a
    ELSE LET b == InitializeLists(a, ls, i - 1)
         IN  [b EXCEPT !.listActivity = MapSet(b.listActivity, ls[i].id, 0),
                       !.cardFlow = MapSet(b.cardFlow, ls[i].id,
                                           InitialFlowMap(ls, ls[i].id, Len(ls)))]

\* A defect of NewBoardActivity: the accumulator of the previous run is reused.
SharedBoardActivity ==
    IF runs > 0 THEN activity
    ELSE [cardsCreated |-> 0, cardsCompleted |-> 0, cardsMoved |-> 0,
          commentsAdded |-> 0, membersActive |-> <<>>, listActivity |-> <<>>,
          cardFlow |-> <<>>, cardsByLabel |-> <<>>, topCards |-> <<>>,
          completedCards |-> <<>>, inProgressCards |-> <<>>, cardChecklists |-> <<>>]

\* The fresh BoardActivity every run starts from.
NewBoardActivity ==
    [cardsCreated |-> 0, cardsCompleted |-> 0, cardsMoved |-> 0,
     commentsAdded |-> 0, membersActive |-> <<>>, listActivity |-> <<>>,
     cardFlow |-> <<>>, cardsByLabel |-> <<>>, topCards |-> <<>>,
     completedCards |-> <<>>, inProgressCards |-> <<>>, cardChecklists |-> <<>>]

\* A defect of UpdateCardFlow: the cell is set to the running cardsMoved count.
UpdateCardFlowFromMoved(a, sourceListId, targetListId) ==
    IF MapHas(a.cardFlow, sourceListId)
    THEN [a EXCEPT !.cardFlow =
             MapSet(a.cardFlow, sourceListId,
                    MapSet(MapGet(a.cardFlow, sourceListId), targetListId,
                           a.cardsMoved))]
    ELSE a

\* flowMap = cardFlow.get(source); if (flowMap) flowMap.set(target, ... + 1)
UpdateCardFlow(a, sourceListId, targetListId) ==
    IF MapHas(a.cardFlow, sourceListId)
    THEN [a EXCEPT !.cardFlow =
             MapSet(a.cardFlow, sourceListId,
                    MapIncrement(MapGet(a.cardFlow, sourceListId), targetListId))]
    ELSE a

\* case "createCard"
OnCreateCard(a, action) ==
    LET b == [a EXCEPT !.cardsCreated = a.cardsCreated + 1]
    IN  IF action.list # Undefined
        THEN [b EXCEPT !.listActivity = MapIncrement(b.listActivity, action.list)]
        ELSE b

\* case "updateCard"
OnUpdateCard(a, action) ==
    IF action.listBefore # Undefined /\ action.listAfter # Undefined
    THEN LET sourceListId == action.listBefore
             targetListId == action.listAfter
             b == [a EXCEPT !.cardsMoved = a.cardsMoved + 1]
             c == [b EXCEPT !.listActivity = MapIncrement(b.listActivity, sourceListId)]
             d == [c EXCEPT !.listActivity = MapIncrement(c.listActivity, targetListId)]
         IN  UpdateCardFlow(d, sourceListId, targetListId)
    ELSE a

\* case "commentCard"
OnCommentCard(a, action) == [a EXCEPT !.commentsAdded = a.commentsAdded + 1]

\* A defect of ProcessAction: the member tally is kept under the tracked
\* types only.
ProcessActionTrackedOnly(a, action) ==
    LET b == [a EXCEPT !.membersActive =
                 MapIncrement(a.membersActive, action.idMemberCreator)]
    IN  CASE action.type = "createCard" -> OnCreateCard(b, action)
          [] action.type = "updateCard" -> OnUpdateCard(b, action)
          [] action.type = "commentCard" -> OnCommentCard(b, action)
          [] OTHER -> a

\* The body of actions.forEach: the member tally, then the switch on the type.
ProcessAction(a, action) ==
    LET b == [a EXCEPT !.membersActive =
                 MapIncrement(a.membersActive, action.idMemberCreator)]
    IN  CASE action.type = "createCard" -> OnCreateCard(b, action)
          [] action.type = "updateCard" -> OnUpdateCard(b, action)
          [] action.type = "commentCard" -> OnCommentCard(b, action)
          [] OTHER -> b

RECURSIVE ProcessActions(_, _, _)
ProcessActions(a, as, i) ==
    IF i = 0 THEN a ELSE ProcessAction(ProcessActions(a, as, i - 1), as[i])

calculateBoardActivity(ls, cs, as) ==
    ProcessActions(InitializeLists(NewBoardActivity, ls, Len(ls)), as, Len(as))


(***************************************************************************)
(* groupCardsByLabel                                                       *)
(***************************************************************************)

\* cardsByLabel after the first i labels got their empty array.
RECURSIVE InitializeLabels(_, _)
InitializeLabels(lbs, i) ==
    IF i = 0 THEN <<>> ELSE MapSet(InitializeLabels(lbs, i - 1), lbs[i].id, <<>>)

\* cardsByLabel after `card` is pushed on the arrays of its first j label ids.
RECURSIVE AddCardToLabels(_, _, _)
AddCardToLabels(m, card, j) ==
    IF j = 0 THEN m
    ELSE LET n == AddCardToLabels(m, card, j - 1)
             labelId == card.idLabels[j]
             labelCards == IF MapHas(n, labelId) THEN MapGet(n, labelId) ELSE <<>>
         IN  MapSet(n, labelId, Append(labelCards, card))

\* A defect of AddCardToLabels: a label id that was not fetched is skipped.
RECURSIVE AddCardToKnownLabels(_, _, _)
AddCardToKnownLabels(m, card, j) ==
    IF j = 0 THEN m
    ELSE LET n == AddCardToKnownLabels(m, card, j - 1)
             labelId == card.idLabels[j]
         IN  IF MapHas(n, labelId)
             THEN MapSet(n, labelId, Append(MapGet(n, labelId), card))
             ELSE n

RECURSIVE AddCards(_, _, _)
AddCards(m, cs, i) ==
    IF i = 0 THEN m
    ELSE AddCardToLabels(AddCards(m, cs, i - 1), cs[i], Len(cs[i].idLabels))

RECURSIVE AddCardsToKnownLabels(_, _, _)
AddCardsToKnownLabels(m, cs, i) ==
    IF i = 0 THEN m
    ELSE AddCardToKnownLabels(AddCardsToKnownLabels(m, cs, i - 1), cs[i],
                              Len(cs[i].idLabels))

groupCardsByKnownLabel(cs, lbs) ==
    AddCardsToKnownLabels(InitializeLabels(lbs, Len(lbs)), cs, Len(cs))

groupCardsByLabel(cs, lbs) ==
    AddCards(InitializeLabels(lbs, Len(lbs)), cs, Len(cs))

(***************************************************************************)
(* findTopCards                                                            *)
(***************************************************************************)

\* The limit generateReport passes to findTopCards.
TopCardsLimit == 15

\* cardActionCounts after the first i events.
RECURSIVE CountCardActions(_, _)
CountCardActions(as, i) ==
    IF i = 0 THEN <<>>
    ELSE LET counts == CountCardActions(as, i - 1)
         IN  IF as[i].card # Undefined THEN MapIncrement(counts, as[i].card)
             ELSE counts

\* cards.filter((card) => cardActionCounts.has(card.id)), on the first i cards
RECURSIVE FilterCounted(_, _, _)
FilterCounted(cs, cardActionCounts, i) ==
    IF i = 0 THEN <<>>
    ELSE IF MapHas(cardActionCounts, cs[i].id)
         THEN Append(FilterCounted(cs, cardActionCounts, i - 1), cs[i])
         ELSE FilterCounted(cs, cardActionCounts, i - 1)

\* array.slice(0, n)
Slice(q, n) == SubSeq(q, 1, Min(n, Len(q)))

\* The comparator of the ranking: countB - countA.
CompareCounts(cardActionCounts, a, b) ==
    MapGetOr0(cardActionCounts, b.id) - MapGetOr0(cardActionCounts, a.id)

\* A defect of InsertSorted: the card goes before the elements it ties with,
\* as in a sort that is not stable.
InsertSortedBeforeTies(q, card, cardActionCounts) ==
    LET k == Cardinality({i \in 1..Len(q) :
                            CompareCounts(cardActionCounts, q[i], card) < 0})
    IN  SubSeq(q, 1, k) \o <<card>> \o SubSeq(q, k + 1, Len(q))

\* card put into the sorted q behind every element the comparator does not
\* place after it: one step of a stable sort.
InsertSorted(q, card, cardActionCounts) ==
    LET k == Cardinality({i \in 1..Len(q) :
                            CompareCounts(cardActionCounts, q[i], card) <= 0})
    IN  SubSeq(q, 1, k) \o <<card>> \o SubSeq(q, k + 1, Len(q))

\* array.sort(comparator) on the first i elements; Array.prototype.sort is stable.
RECURSIVE SortByCount(_, _, _)
SortByCount(q, cardActionCounts, i) ==
    IF i = 0 THEN <<>>
    ELSE InsertSorted(SortByCount(q, cardActionCounts, i - 1), q[i], cardActionCounts)

\* A defect of findTopCards: the ranking is not cut at the limit.
findTopCardsUncut(cs, as, limit) ==
    LET cardActionCounts == CountCardActions(as, Len(as))
        active == FilterCounted(cs, cardActionCounts, Len(cs))
    IN  SortByCount(active, cardActionCounts, Len(active))

findTopCards(cs, as, limit) ==
    LET cardActionCounts == CountCardActions(as, Len(as))
        active == FilterCounted(cs, cardActionCounts, Len(cs))
    IN  Slice(SortByCount(active, cardActionCounts, Len(active)), limit)

(***************************************************************************)
(* listBoards                                                              *)
(***************************************************************************)

\* A string is the sequence of its characters.
Chars == {"P", "p", "x"}

\* An absent searchTerm: no string, told apart from every string by its element.
NoSearchTerm == <<Undefined>>

UpperCase == <<"A", "B", "C", "D", "E", "F", "G", "H", "I", "J", "K", "L", "M",
               "N", "O", "P", "Q", "R", "S", "T", "U", "V", "W", "X", "Y", "Z">>
LowerCase == <<"a", "b", "c", "d", "e", "f", "g", "h", "i", "j", "k", "l", "m",
               "n", "o", "p", "q", "r", "s", "t", "u", "v", "w", "x", "y", "z">>

\* String.prototype.toLowerCase on one character.
LowerChar(c) ==
    IF \E i \in 1..Len(UpperCase) : UpperCase[i] = c
    THEN LowerCase[CHOOSE i \in 1..Len(UpperCase) : UpperCase[i] = c]
    ELSE c

toLowerCase(str) == [i \in 1..Len(str) |-> LowerChar(str[i])]

\* String.prototype.includes
includes(str, search) ==
    \E i \in 0..(Len(str) - Len(search)) : SubSeq(str, i + 1, i + Len(search)) = search

\* boards.filter(...) on the first i boards
RECURSIVE FilterBoards(_, _, _)
FilterBoards(bs, normalizedSearchTerm, i) ==
    IF i = 0 THEN <<>>
    ELSE IF includes(toLowerCase(bs[i].name), normalizedSearchTerm)
         THEN Append(FilterBoards(bs, normalizedSearchTerm, i - 1), bs[i])
         ELSE FilterBoards(bs, normalizedSearchTerm, i - 1)

\* A defect of listBoards: the board name is compared as it is spelled.
RECURSIVE FilterBoardsCaseSensitive(_, _, _)
FilterBoardsCaseSensitive(bs, normalizedSearchTerm, i) ==
    IF i = 0 THEN <<>>
    ELSE IF includes(bs[i].name, normalizedSearchTerm)
         THEN Append(FilterBoardsCaseSensitive(bs, normalizedSearchTerm, i - 1), bs[i])
         ELSE FilterBoardsCaseSensitive(bs, normalizedSearchTerm, i - 1)

listBoardsCaseSensitive(term) ==
    IF term = NoSearchTerm \/ term = <<>> THEN boards
    ELSE FilterBoardsCaseSensitive(boards, toLowerCase(term), Len(boards))

\* boards is what the awaited trelloApi.getBoards() answered.
listBoards(term) ==
    IF term = NoSearchTerm \/ term = <<>> THEN boards
    ELSE FilterBoards(boards, toLowerCase(term), Len(boards))

(***************************************************************************)
(* SpecPeriod: a period is drawn, getDateRangeForPeriod resolves it.        *)
(***************************************************************************)

\* The value of a variable the running specification does not use.
Idle == <<>>

IdlePeriodVars ==
    /\ period = Idle
    /\ currentYear = MinYear
    /\ dateRange = Idle

IdleBoardVars ==
    /\ lists = <<>>
    /\ cards = <<>>
    /\ labels = <<>>
    /\ actions = <<>>
    /\ inputs0 = Idle

IdleActivityVars ==
    /\ activity = Idle
    /\ firstActivity = Idle
    /\ runs = 0

IdleCardVars ==
    /\ cardsByLabel = Idle
    /\ topCards = Idle

IdleListBoardsVars ==
    /\ boards = <<>>
    /\ searchTerm = NoSearchTerm
    /\ boardsResult = Idle

IdleRenderVars ==
    /\ format = Undefined
    /\ markdown = Idle

IdleServerVars ==
    /\ env = Idle
    /\ client = Idle
    /\ inv = Idle
    /\ requests = <<>>

InitPeriod ==
    /\ pc = "period"
    /\ period \in [type : PeriodTypes, year : Years \cup {NoYear}]
    /\ currentYear \in Years
    /\ dateRange = Idle
    /\ IdleBoardVars /\ IdleActivityVars /\ IdleCardVars /\ IdleListBoardsVars
    /\ IdleRenderVars /\ IdleServerVars

ResolvePeriod ==
    /\ pc = "period"
    /\ dateRange' = getDateRangeForPeriod(period)
    /\ pc' = "resolved"
    /\ UNCHANGED <<period, currentYear, boardVars, activityVars, cardVars,
                   listBoardsVars, renderVars, serverVars>>

NextPeriod == ResolvePeriod

SpecPeriod == InitPeriod /\ [][NextPeriod]_vars

(***************************************************************************)
(* SpecActivity: lists and events are drawn, calculateBoardActivity runs    *)
(* on them, up to MaxRuns times.                                            *)
(***************************************************************************)

\* Runs of calculateBoardActivity on the same collections.
MaxRuns == 2

ListIds == {"L1", "L2"}
MemberIds == {"M1", "M2"}

\* The lists of the boards the renderers are applied to.
RenderListIds == ListIds \cup {"L3", "L4"}

\* The lists of the boards the card subsets are derived on.
StageListIds == {"L1", "L2", "L4", "L5"}

\* name of the list with a given id, in the lists and in the events' payloads
ListName ==
    [id \in RenderListIds \cup StageListIds |->
        CASE id = "L1" -> <<"D", "o", "i", "n", "g">>
          [] id = "L2" -> <<"D", "o", "n", "e">>
          [] id = "L3" -> <<"B", "a", "c", "k", "l", "o", "g">>
          [] id = "L4" -> <<"R", "e", "v", "i", "e", "w">>
          [] id = "L5" -> <<"R", "e", "v", "i", "e", "w", " ", "T", "o", "D", "o">>]

\* Every fetched collection of lists: distinct lists in any order, so that an
\* event may name a list that was not fetched.
ListChoices ==
    {[i \in 1..Len(q) |-> [id |-> q[i], name |-> ListName[q[i]]]] :
        q \in DistinctSeqs(ListIds)}

Event(member, type, list, card, listBefore, listAfter) ==
    [idMemberCreator |-> member, type |-> type, list |-> list, card |-> card,
     listBefore |-> listBefore, listAfter |-> listAfter]

\* The events calculateBoardActivity tells apart: a created card with or
\* without a list, an update with both lists (the same list included), with one
\* or with none, a comment, and a type it does not track.
ActivityEvents ==
    UNION {
        {Event(m, "createCard", l, Undefined, Undefined, Undefined) :
            l \in ListIds \cup {Undefined}}
        \cup {Event(m, "updateCard", Undefined, Undefined, b, a) :
                b \in ListIds, a \in ListIds}
        \cup {Event(m, "updateCard", Undefined, Undefined, Undefined, Undefined),
              Event(m, "updateCard", Undefined, Undefined, Undefined, "L1"),
              Event(m, "updateCard", Undefined, Undefined, "L1", Undefined),
              Event(m, "commentCard", Undefined, Undefined, Undefined, Undefined),
              Event(m, "addMemberToCard", Undefined, Undefined, Undefined, Undefined)}
        : m \in MemberIds}

InitActivity ==
    /\ pc = "activity"
    /\ lists \in ListChoices
    /\ cards = <<>>
    /\ labels = <<>>
    /\ actions \in SeqsUpTo(ActivityEvents, MaxEvents)
    /\ inputs0 = [lists |-> lists, cards |-> cards, actions |-> actions]
    /\ IdleActivityVars /\ IdlePeriodVars /\ IdleCardVars /\ IdleListBoardsVars
    /\ IdleRenderVars /\ IdleServerVars

CalculateBoardActivity ==
    /\ pc = "activity"
    /\ runs < MaxRuns
    /\ activity' = calculateBoardActivity(lists, cards, actions)
    /\ firstActivity' = IF runs = 0 THEN activity' ELSE firstActivity
    /\ runs' = runs + 1
    /\ UNCHANGED <<pc, boardVars, periodVars, cardVars, listBoardsVars, renderVars,
                   serverVars>>

NextActivity == CalculateBoardActivity

SpecActivity == InitActivity /\ [][NextActivity]_vars

(***************************************************************************)
(* SpecCards: cards, labels and events are drawn; groupCardsByLabel and     *)
(* findTopCards run on them in the order generateReport calls them.         *)
(***************************************************************************)

\* Most cards fetched in the collections that reach past the top-cards limit.
MaxCards == 17

\* Most extra events, on any card, in those collections.
MaxExtraEvents == 2

CardId(i) == "C" \o ToString(i)
\* The label ids cards carry, and one more that only the board's labels have.
LabelIds == {"B1", "B2"}
BoardLabelIds == LabelIds \cup {"B3"}

Card(i, labelIds) == [id |-> CardId(i), idList |-> "L1", idLabels |-> labelIds]

CardEvent(cardId) ==
    Event("M1", "commentCard", Undefined, cardId, Undefined, Undefined)

\* Two cards at most, with any labels; some labels fetched, some not; events
\* on a fetched card, on a card that was not fetched, or on no card.
SmallBoards ==
    {[lists |-> <<>>, cards |-> cs, labels |-> lbs, actions |-> as] :
        cs \in {<<>>}
               \cup {<<Card(i, l)>> : i \in 1..2, l \in DistinctSeqs(LabelIds)}
               \cup {<<Card(i, l), Card(3 - i, m)>> :
                        i \in 1..2, l \in DistinctSeqs(LabelIds),
                        m \in DistinctSeqs(LabelIds)},
        lbs \in {[i \in 1..Len(q) |-> [id |-> q[i], name |-> q[i]]] :
                    q \in DistinctSeqs(BoardLabelIds)},
        as \in SeqsUpTo({CardEvent(CardId(1)), CardEvent(CardId(2)),
                         CardEvent(Undefined)}, MaxEvents)}

\* Around TopCardsLimit cards without labels: extra events on the first card,
\* on the card at the limit or on the last card, then one event on each of the
\* first m cards.
LargeBoards ==
    UNION {
        {[lists |-> <<>>,
          cards |-> [i \in 1..n |-> Card(i, <<>>)],
          labels |-> <<>>,
          actions |-> [k \in 1..Len(x) |-> CardEvent(CardId(x[k]))]
                        \o [k \in 1..m |-> CardEvent(CardId(k))]] :
            m \in 0..n, x \in SeqsUpTo({1, TopCardsLimit, n}, MaxExtraEvents)}
        : n \in (TopCardsLimit - 1)..MaxCards}

InitCards ==
    /\ pc = "cards"
    /\ inputs0 \in SmallBoards \cup LargeBoards
    /\ lists = inputs0.lists
    /\ cards = inputs0.cards
    /\ labels = inputs0.labels
    /\ actions = inputs0.actions
    /\ IdleCardVars /\ IdleActivityVars /\ IdlePeriodVars /\ IdleListBoardsVars
    /\ IdleRenderVars /\ IdleServerVars

\* activity.cardsByLabel = groupCardsByLabel(cards, labels)
GroupCardsByLabel ==
    /\ pc = "cards"
    /\ cardsByLabel' = groupCardsByLabel(cards, labels)
    /\ pc' = "grouped"
    /\ UNCHANGED <<topCards, boardVars, activityVars, periodVars, listBoardsVars,
                   renderVars, serverVars>>

\* activity.topCards = findTopCards(cards, actions, 15)
FindTopCards ==
    /\ pc = "grouped"
    /\ topCards' = findTopCards(cards, actions, TopCardsLimit)
    /\ pc' = "ranked"
    /\ UNCHANGED <<cardsByLabel, boardVars, activityVars, periodVars, listBoardsVars,
                   renderVars, serverVars>>

NextCards == GroupCardsByLabel \/ FindTopCards

SpecCards == InitCards /\ [][NextCards]_vars

(***************************************************************************)
(* SpecBoards: the boards the API answers and a search term are drawn,      *)
(* listBoards runs on them.                                                 *)
(***************************************************************************)

\* Most boards the API answers.
MaxBoards == 2

\* Longest board name and longest search term.
MaxNameLen == 2

BoardChoices ==
    {[i \in 1..Len(names) |-> [id |-> "B" \o ToString(i), name |-> names[i]]] :
        names \in SeqsUpTo(SeqsUpTo(Chars, MaxNameLen), MaxBoards)}

InitBoards ==
    /\ pc = "boards"
    /\ boards \in BoardChoices
    /\ searchTerm \in SeqsUpTo(Chars, MaxNameLen) \cup {NoSearchTerm}
    /\ boardsResult = Idle
    /\ IdleBoardVars /\ IdleCardVars /\ IdleActivityVars /\ IdlePeriodVars
    /\ IdleRenderVars /\ IdleServerVars

ListBoards ==
    /\ pc = "boards"
    /\ boardsResult' = listBoards(searchTerm)
    /\ pc' = "listed"
    /\ UNCHANGED <<boards, searchTerm, boardVars, cardVars, activityVars, periodVars,
                   renderVars, serverVars>>

NextBoards == ListBoards

SpecBoards == InitBoards /\ [][NextBoards]_vars

(***************************************************************************)
(* findMostActiveList, findCompletedCards, findInProgressCards             *)
(***************************************************************************)

\* null, where a list is expected
NoList == [id |-> Undefined, name |-> <<>>]

\* lists.find((list) => list.id === id) || null
FindList(ls, id) ==
    IF \E i \in 1..Len(ls) : ls[i].id = id
    THEN ls[CHOOSE i \in 1..Len(ls) :
                /\ ls[i].id = id
                /\ \A j \in 1..(i - 1) : ls[j].id # id]
    ELSE NoList

\* maxActivity and mostActiveListId after the first i entries of listActivity
RECURSIVE MostActiveEntry(_, _)
MostActiveEntry(listActivity, i) ==
    IF i = 0 THEN [maxActivity |-> 0, mostActiveListId |-> Undefined]
    ELSE LET r == MostActiveEntry(listActivity, i - 1)
         IN  IF listActivity[i].value > r.maxActivity
             THEN [maxActivity |-> listActivity[i].value,
                   mostActiveListId |-> listActivity[i].key]
             ELSE r

findMostActiveList(a, ls) ==
    LET r == MostActiveEntry(a.listActivity, Len(a.listActivity))
    IN  IF r.mostActiveListId = Undefined THEN NoList
        ELSE FindList(ls, r.mostActiveListId)

completionListNames ==
    <<<<"D", "o", "n", "e">>,
      <<"C", "o", "m", "p", "l", "e", "t", "e", "d">>,
      <<"F", "i", "n", "i", "s", "h", "e", "d">>>>

inProgressListNames ==
    <<<<"I", "n", " ", "P", "r", "o", "g", "r", "e", "s", "s">>,
      <<"D", "o", "i", "n", "g">>,
      <<"W", "o", "r", "k", "i", "n", "g">>,
      <<"C", "u", "r", "r", "e", "n", "t", " ", "S", "p", "r", "i", "n", "t">>>>

\* names.some((name) => str.toLowerCase().includes(name.toLowerCase()))
IncludesSome(str, names) ==
    \E k \in 1..Len(names) : includes(toLowerCase(str), toLowerCase(names[k]))

\* An updateCard event whose payload has a listAfter.
HasListAfter(action) == action.type = "updateCard" /\ action.listAfter # Undefined

findCompletedCards(cs, as) ==
    LET completionListIds ==
            {as[k].listAfter : k \in {n \in 1..Len(as) :
                /\ HasListAfter(as[n])
                /\ IncludesSome(ListName[as[n].listAfter], completionListNames)}}
        completedCardIds ==
            {as[k].card : k \in {n \in 1..Len(as) :
                /\ HasListAfter(as[n])
                /\ as[n].listAfter \in completionListIds
                /\ as[n].card # Undefined}}
        Completed(card) == card.id \in completedCardIds
    IN  SelectSeq(cs, Completed)

\* A defect of findInProgressCards: the list of a card is judged by its name
\* whether it was fetched or not.
findInProgressCardsOnAnyList(cs, ls) ==
    LET InProgress(card) == IncludesSome(ListName[card.idList], inProgressListNames)
    IN  SelectSeq(cs, InProgress)

findInProgressCards(cs, ls) ==
    LET inProgressListIds ==
            {ls[i].id : i \in {n \in 1..Len(ls) :
                IncludesSome(ls[n].name, inProgressListNames)}}
        InProgress(card) == card.idList \in inProgressListIds
    IN  SelectSeq(cs, InProgress)

(***************************************************************************)
(* generateReportSummary: the Recommendations section. A suggestion is      *)
(* modelled by its kind and by the list name it quotes.                     *)
(***************************************************************************)

Suggestion(kind, listName) == [line |-> kind, list |-> listName]

\* "Based on completed work"
CompletionSuggestions(a, p) ==
    IF Len(a.completedCards) = 0 THEN <<Suggestion("investigate", <<>>)>>
    ELSE IF Len(a.completedCards) < 3 /\ p.type # "year"
         THEN <<Suggestion("bottlenecks", <<>>)>>
         ELSE <<>>

\* A defect of ListSuggestions: the list is looked at only when some card was
\* completed.
ListSuggestionsWhenCompleted(a, mostActiveList) ==
    IF mostActiveList = NoList \/ Len(a.completedCards) = 0 THEN <<>>
    ELSE LET mostActiveListName == toLowerCase(mostActiveList.name)
         IN  IF \/ includes(mostActiveListName, <<"b", "a", "c", "k", "l", "o", "g">>)
                \/ includes(mostActiveListName, <<"t", "o", "d", "o">>)
             THEN <<Suggestion("prioritize", mostActiveList.name)>>
             ELSE IF \/ includes(mostActiveListName, <<"p", "r", "o", "g", "r", "e", "s", "s">>)
                     \/ includes(mostActiveListName, <<"d", "o", "i", "n", "g">>)
             THEN <<Suggestion("overcommitment", mostActiveList.name)>>
             ELSE IF \/ includes(mostActiveListName, <<"r", "e", "v", "i", "e", "w">>)
                     \/ includes(mostActiveListName, <<"v", "a", "l", "i", "d", "a", "t", "i", "o", "n">>)
             THEN <<Suggestion("review", mostActiveList.name)>>
             ELSE <<>>

\* A defect of ListSuggestions: every heuristic that matches writes its line.
ListSuggestionsEveryMatch(a, mostActiveList) ==
    IF mostActiveList = NoList THEN <<>>
    ELSE LET mostActiveListName == toLowerCase(mostActiveList.name)
         IN  (IF \/ includes(mostActiveListName, <<"b", "a", "c", "k", "l", "o", "g">>)
                 \/ includes(mostActiveListName, <<"t", "o", "d", "o">>)
              THEN <<Suggestion("prioritize", mostActiveList.name)>> ELSE <<>>)
             \o (IF \/ includes(mostActiveListName, <<"p", "r", "o", "g", "r", "e", "s", "s">>)
                    \/ includes(mostActiveListName, <<"d", "o", "i", "n", "g">>)
                 THEN <<Suggestion("overcommitment", mostActiveList.name)>> ELSE <<>>)
             \o (IF \/ includes(mostActiveListName, <<"r", "e", "v", "i", "e", "w">>)
                    \/ includes(mostActiveListName, <<"v", "a", "l", "i", "d", "a", "t", "i", "o", "n">>)
                 THEN <<Suggestion("review", mostActiveList.name)>> ELSE <<>>)

\* "Based on card flow"
ListSuggestions(a, mostActiveList) ==
    IF mostActiveList = NoList THEN <<>>
    ELSE LET mostActiveListName == toLowerCase(mostActiveList.name)
         IN  IF \/ includes(mostActiveListName, <<"b", "a", "c", "k", "l", "o", "g">>)
                \/ includes(mostActiveListName, <<"t", "o", "d", "o">>)
             THEN <<Suggestion("prioritize", mostActiveList.name)>>
             ELSE IF \/ includes(mostActiveListName, <<"p", "r", "o", "g", "r", "e", "s", "s">>)
                     \/ includes(mostActiveListName, <<"d", "o", "i", "n", "g">>)
             THEN <<Suggestion("overcommitment", mostActiveList.name)>>
             ELSE IF \/ includes(mostActiveListName, <<"r", "e", "v", "i", "e", "w">>)
                     \/ includes(mostActiveListName, <<"v", "a", "l", "i", "d", "a", "t", "i", "o", "n">>)
             THEN <<Suggestion("review", mostActiveList.name)>>
             ELSE <<>>

\* A section of the rendered text: its "## " title and what stands under it.
Section(title, body) == [title |-> title, body |-> body]

generateReportSummary(p, ls, a) ==
    LET mostActiveList == findMostActiveList(a, ls)
    IN  <<Section("Recommendations",
                  CompletionSuggestions(a, p) \o ListSuggestions(a, mostActiveList))>>

(***************************************************************************)
(* generateMarkdownReport: the Activity Summary and the Card Flow sections. *)
(* A "### From" subsection is modelled by the list it names and its         *)
(* "- **To" lines, each by the list it names and its count.                 *)
(***************************************************************************)

\* flowMap.forEach((count) => { if (count > 0) hasMovements = true })
HasMovements(flowMap) == \E j \in 1..Len(flowMap) : flowMap[j].value > 0

\* listsWithMovements after the first i entries of cardFlow
RECURSIVE ListsWithMovements(_, _, _)
ListsWithMovements(a, ls, i) ==
    IF i = 0 THEN <<>>
    ELSE LET rest == ListsWithMovements(a, ls, i - 1)
             list == FindList(ls, a.cardFlow[i].key)
         IN  IF HasMovements(a.cardFlow[i].value) /\ list # NoList
             THEN Append(rest, list)
             ELSE rest

\* A defect of ToLines: a line is written for every cell, zero or not.
RECURSIVE ToLinesEveryCell(_, _, _)
ToLinesEveryCell(flowMap, ls, j) ==
    IF j = 0 THEN <<>>
    ELSE LET rest == ToLinesEveryCell(flowMap, ls, j - 1)
             targetList == FindList(ls, flowMap[j].key)
         IN  IF targetList # NoList
             THEN Append(rest, [to |-> targetList, count |-> flowMap[j].value])
             ELSE rest

\* the "- **To" lines of the first j entries of a flow map
RECURSIVE ToLines(_, _, _)
ToLines(flowMap, ls, j) ==
    IF j = 0 THEN <<>>
    ELSE LET rest == ToLines(flowMap, ls, j - 1)
             targetList == FindList(ls, flowMap[j].key)
         IN  IF flowMap[j].value > 0 /\ targetList # NoList
             THEN Append(rest, [to |-> targetList, count |-> flowMap[j].value])
             ELSE rest

\* the "### From" subsections of the first i lists with movements
RECURSIVE FromSections(_, _, _, _)
FromSections(a, ls, listsWithMovements, i) ==
    IF i = 0 THEN <<>>
    ELSE LET rest == FromSections(a, ls, listsWithMovements, i - 1)
             sourceList == listsWithMovements[i]
             flowMap == MapGet(a.cardFlow, sourceList.id)
             totalOutflow == SumValues(flowMap, Len(flowMap))
         IN  IF totalOutflow > 0
             THEN Append(rest, [from |-> sourceList,
                                lines |-> ToLines(flowMap, ls, Len(flowMap))])
             ELSE rest

\* if (activity.cardsMoved > 0) { "## Card Flow" ... }
CardFlowSection(a, ls) ==
    IF a.cardsMoved > 0
    THEN LET listsWithMovements == ListsWithMovements(a, ls, Len(a.cardFlow))
         IN  IF Len(listsWithMovements) > 0
             THEN <<Section("Card Flow",
                            FromSections(a, ls, listsWithMovements,
                                         Len(listsWithMovements)))>>
             ELSE <<Section("Card Flow", <<>>)>>
    ELSE <<>>

\* "## Activity Summary": the three counts, and the "- **Most Active List**"
\* line if (mostActiveList), kept as the names it quotes.
ActivitySummarySection(a, ls) ==
    LET mostActiveList == findMostActiveList(a, ls)
    IN  <<Section("Activity Summary",
                  [cardsCreated |-> a.cardsCreated, cardsMoved |-> a.cardsMoved,
                   commentsAdded |-> a.commentsAdded,
                   mostActiveList |-> IF mostActiveList # NoList
                                      THEN <<mostActiveList.name>> ELSE <<>>])>>

generateMarkdownReport(ls, a) ==
    ActivitySummarySection(a, ls) \o CardFlowSection(a, ls)

(***************************************************************************)
(* SpecRender: lists, events, a period and a format are drawn; the         *)
(* aggregate is built as generateReport builds it and the renderer of the   *)
(* format is applied to it.                                                 *)
(***************************************************************************)

\* Most lists on a rendered board.
MaxRenderLists == 2

RenderListChoices ==
    {[i \in 1..Len(q) |-> [id |-> q[i], name |-> ListName[q[i]]]] :
        q \in {r \in DistinctSeqs(RenderListIds) : Len(r) <= MaxRenderLists}}

\* A card created on any list; the first card moved between the first two
\* lists, either way or within one, or out of the third list.
RenderEvents ==
    {Event("M1", "createCard", l, Undefined, Undefined, Undefined) : l \in RenderListIds}
    \cup {Event("M1", "updateCard", Undefined, CardId(1), b, a) :
            b \in ListIds, a \in ListIds}
    \cup {Event("M1", "updateCard", Undefined, CardId(1), "L3", "L1")}

\* generateReport: the aggregate of calculateBoardActivity and the four
\* fields assigned to it afterwards.
BuildAggregate(ls, cs, lbs, as) ==
    [calculateBoardActivity(ls, cs, as) EXCEPT
        !.cardsByLabel = groupCardsByLabel(cs, lbs),
        !.topCards = findTopCards(cs, as, TopCardsLimit),
        !.completedCards = findCompletedCards(cs, as),
        !.inProgressCards = findInProgressCards(cs, ls)]

InitRender ==
    /\ pc = "render"
    /\ lists \in RenderListChoices
    /\ cards = <<Card(1, <<>>), Card(2, <<>>)>>
    /\ labels = <<>>
    /\ actions \in SeqsUpTo(RenderEvents, MaxEvents)
    /\ inputs0 = Idle
    /\ period \in [type : {"Q1", "year"}, year : {MaxYear}]
    /\ currentYear = MinYear
    /\ dateRange = Idle
    /\ format \in {"summary", "full"}
    /\ markdown = Idle
    /\ IdleActivityVars /\ IdleCardVars /\ IdleListBoardsVars /\ IdleServerVars

BuildActivity ==
    /\ pc = "render"
    /\ activity' = BuildAggregate(lists, cards, labels, actions)
    /\ pc' = "built"
    /\ UNCHANGED <<firstActivity, runs, boardVars, periodVars, cardVars,
                   listBoardsVars, renderVars, serverVars>>

\* format === "summary"
RenderSummary ==
    /\ pc = "built"
    /\ format = "summary"
    /\ markdown' = generateReportSummary(period, lists, activity)
    /\ pc' = "rendered"
    /\ UNCHANGED <<format, boardVars, periodVars, activityVars, cardVars,
                   listBoardsVars, serverVars>>

\* format === "full"
RenderFull ==
    /\ pc = "built"
    /\ format # "summary"
    /\ markdown' = generateMarkdownReport(lists, activity)
    /\ pc' = "rendered"
    /\ UNCHANGED <<format, boardVars, periodVars, activityVars, cardVars,
                   listBoardsVars, serverVars>>

NextRender == BuildActivity \/ RenderSummary \/ RenderFull

SpecRender == InitRender /\ [][NextRender]_vars

(***************************************************************************)
(* SpecSubsets: lists, cards on them and events are drawn, the events       *)
(* starting with the moves of the first cards into the list "Done"; the     *)
(* aggregate is built and rendered by the actions of SpecRender.            *)
(***************************************************************************)

\* Most cards that the first events move into "Done".
MaxCompleted == 3

StageListChoices ==
    {[i \in 1..Len(q) |-> [id |-> q[i], name |-> ListName[q[i]]]] :
        q \in {r \in DistinctSeqs(StageListIds) : Len(r) <= MaxRenderLists}}

CardOn(i, listId) == [id |-> CardId(i), idList |-> listId, idLabels |-> <<>>]

\* Two cards on "Doing", one on "Done", one on "Review".
StageCards == <<CardOn(1, "L1"), CardOn(2, "L2"), CardOn(3, "L4"), CardOn(4, "L1")>>

\* The first three cards, or all four fetched in the opposite order.
StageCardChoices ==
    {SubSeq(StageCards, 1, 3),
     [i \in 1..Len(StageCards) |-> StageCards[Len(StageCards) + 1 - i]]}

\* The first n cards are moved from "Doing" into "Done", one after the other.
Completions(n) ==
    [k \in 1..n |-> Event("M1", "updateCard", Undefined, CardId(k), "L1", "L2")]

\* The first card updated with "Done" as its after-list and no before-list;
\* the second card created on "Done"; a card created on "Review ToDo"; the
\* third card moved from "Review ToDo" to "Review".
StageEvents ==
    {Event("M1", "updateCard", Undefined, CardId(1), Undefined, "L2"),
     Event("M2", "createCard", "L2", CardId(2), Undefined, Undefined),
     Event("M2", "createCard", "L5", Undefined, Undefined, Undefined),
     Event("M1", "updateCard", Undefined, CardId(3), "L5", "L4")}

\* The summary of a quarter or of a year, or the full report of a quarter.
StageReports ==
    {[type |-> "Q1", format |-> "summary"], [type |-> "year", format |-> "summary"],
     [type |-> "Q1", format |-> "full"]}

InitSubsets ==
    /\ pc = "render"
    /\ lists \in StageListChoices
    /\ cards \in StageCardChoices
    /\ labels = <<>>
    /\ \E n \in 0..MaxCompleted, later \in SeqsUpTo(StageEvents, MaxExtraEvents) :
          actions = Completions(n) \o later
    /\ inputs0 = Idle
    /\ \E r \in StageReports :
          /\ period = [type |-> r.type, year |-> MaxYear]
          /\ format = r.format
    /\ currentYear = MinYear
    /\ dateRange = Idle
    /\ markdown = Idle
    /\ IdleActivityVars /\ IdleCardVars /\ IdleListBoardsVars /\ IdleServerVars

SpecSubsets == InitSubsets /\ [][NextRender]_vars

(***************************************************************************)
(* The api module: the trelloApi singleton and the requests of its get().   *)
(***************************************************************************)

\* !x for an optional string: undefined and "" are falsy.
Falsy(x) == x = Undefined \/ x = ""

\* !name for an optional string kept as its characters.
FalsyChars(str) == str = NoSearchTerm \/ str = <<>>

\* process.env.NAME || ""
OrEmpty(x) == IF Falsy(x) THEN "" ELSE x

\* The api module before it is loaded.
NoClient == [state |-> "unloaded", apiKey |-> "", apiToken |-> ""]

\* A defect of TrelloApiClient: only the key is looked at.
TrelloApiClientKeyOnly(e) ==
    LET apiKey == OrEmpty(e.TRELLO_API_KEY)
        apiToken == OrEmpty(e.TRELLO_API_TOKEN)
    IN  [state |-> IF Falsy(apiKey) THEN "failed" ELSE "ready",
         apiKey |-> apiKey, apiToken |-> apiToken]

\* new TrelloApiClient(): the client, or "failed" for the error it throws.
TrelloApiClient(e) ==
    LET apiKey == OrEmpty(e.TRELLO_API_KEY)
        apiToken == OrEmpty(e.TRELLO_API_TOKEN)
    IN  [state |-> IF Falsy(apiKey) \/ Falsy(apiToken) THEN "failed" ELSE "ready",
         apiKey |-> apiKey, apiToken |-> apiToken]

\* axios.get(endpoint, {params: {...getAuthParams(), ...params}}), not answered
\* yet, on behalf of invocation i.
Request(i, op, arg) ==
    [inv |-> i, op |-> op, arg |-> arg, key |-> client.apiKey,
     token |-> client.apiToken, state |-> "pending"]

Pending(i) == {k \in 1..Len(requests[i]) : requests[i][k].state = "pending"}

\* The request invocation i awaits.
Awaited(i) == CHOOSE k \in Pending(i) : \A j \in Pending(i) : k <= j

\* The log of invocation i once the awaited request is answered ("ok") or
\* has failed.
Settle(i, state) == [requests[i] EXCEPT ![Awaited(i)].state = state]

\* The log of invocation i becomes log.
Logged(i, log) == requests' = [requests EXCEPT ![i] = log]

\* null, where a board is expected
NoBoard == [id |-> Undefined, name |-> <<>>]

\* A defect of findBoardByName: without a match the first board is taken.
findBoardByNameOrFirst(bs, name) ==
    LET matches == {k \in 1..Len(bs) : includes(toLowerCase(bs[k].name), toLowerCase(name))}
    IN  IF bs = <<>> THEN NoBoard
        ELSE IF matches = {} THEN bs[1]
        ELSE bs[CHOOSE k \in matches : \A j \in matches : k <= j]

\* boards.find((board) => board.name.toLowerCase().includes(normalizedName)) || null
findBoardByName(bs, name) ==
    LET matches == {k \in 1..Len(bs) : includes(toLowerCase(bs[k].name), toLowerCase(name))}
    IN  IF matches = {} THEN NoBoard
        ELSE bs[CHOOSE k \in matches : \A j \in matches : k <= j]

(***************************************************************************)
(* Invocations: generateReport called directly, and the handlers of the     *)
(* tools list_boards and generate_report.                                   *)
(***************************************************************************)

\* The text of an invocation before its renderer has run.
NoMarkdown == <<Section(Undefined, <<>>)>>

\* An invocation that has not been made yet.
NotStarted ==
    [pc |-> "idle", tool |-> Undefined, options |-> Idle,
     targetBoardId |-> Undefined, dateRange |-> Idle, boardInfo |-> Idle,
     lists |-> Idle, cards |-> Idle, members |-> Idle, labels |-> Idle,
     actions |-> Idle, activity |-> Idle, k |-> 0, markdown |-> NoMarkdown,
     boards |-> Idle, outcome |-> Idle]

\* An absent period.
NoPeriod == [absent |-> TRUE]

Options(boardId, boardName, p, fmt, term) ==
    [boardId |-> boardId, boardName |-> boardName, period |-> p,
     format |-> fmt, searchTerm |-> term]

\* What generateReport is called with: a board id or none, a board name that
\* matches a board, matches none or is absent, a period or parts of one, a
\* format, absent, known or unknown.
ReportOptions ==
    {Options(b, n, p, f, NoSearchTerm) :
        b \in {Undefined, "", "B1"},
        n \in {NoSearchTerm, <<>>, <<"p">>, <<"p", "p">>},
        p \in {NoPeriod} \cup [type : {Undefined, "Q1", "year"}, year : {NoYear, MaxYear}],
        f \in {Undefined, "summary", "full", "pdf"}}

\* What the generate_report tool is called with, as its schema admits it.
ReportToolOptions ==
    {Options(b, n, p, f, NoSearchTerm) :
        b \in {Undefined, "B1"},
        n \in {NoSearchTerm, <<"p">>, <<"p", "p">>},
        p \in [type : {"Q1"}, year : {NoYear, MaxYear}],
        f \in {Undefined, "summary"}}

\* What the list_boards tool is called with.
ListToolOptions ==
    {Options(Undefined, NoSearchTerm, NoPeriod, Undefined, term) :
        term \in {NoSearchTerm, <<"p">>}}

\* new Error(message): the message is kept as the parts it is put together of.
Error(message) == [isError |-> TRUE, message |-> message]

\* What get() throws: the Error it makes of an axios error, or whatever else
\* axios.get threw, which need not be an Error.
FetchErrors ==
    {Error(<<"Trello API error: ", "${message}">>), [isError |-> FALSE, message |-> <<>>]}

\* A defect of Caught: the generate_report handler lets an error of the client
\* through as it is.
CaughtUnlessUpstream(tool, error) ==
    CASE tool = "generate_report" /\ error \notin FetchErrors ->
            Error(<<"Failed to generate report: ">> \o error.message)
      [] tool = "list_boards" ->
            IF error.isError
            THEN Error(<<"Failed to list boards: ">> \o error.message)
            ELSE Error(<<"Failed to list boards: ", "Unknown error">>)
      [] OTHER -> error

\* catch (error) of the tools' handlers: a new Error whose message is the
\* prefix and the message of the error, or "Unknown error". A direct call of
\* generateReport has no handler around it.
Caught(tool, error) ==
    CASE tool = "generate_report" ->
            IF error.isError
            THEN Error(<<"Failed to generate report: ">> \o error.message)
            ELSE Error(<<"Failed to generate report: ", "Unknown error">>)
      [] tool = "list_boards" ->
            IF error.isError
            THEN Error(<<"Failed to list boards: ">> \o error.message)
            ELSE Error(<<"Failed to list boards: ", "Unknown error">>)
      [] OTHER -> error

\* throw error, as it reaches the caller of the invocation
Throw(r, error) ==
    [r EXCEPT !.pc = "done",
              !.outcome = [status |-> "thrown", error |-> Caught(r.tool, error)]]

\* return {...}
Return(r) ==
    [r EXCEPT !.pc = "done",
              !.outcome = [status |-> "returned", error |-> [isError |-> FALSE, message |-> <<>>]]]

\* !period || !period.type || !period.year
InvalidPeriod(p) ==
    IF p = NoPeriod THEN TRUE ELSE Falsy(p.type) \/ p.year = NoYear

\* A defect of FormatOrDefault: an absent format stays absent.
FormatAsGiven(fmt) == fmt

\* const { format = "full" } = options
FormatOrDefault(fmt) == IF fmt = Undefined THEN "full" ELSE fmt

InvalidFormat(fmt) == FormatOrDefault(fmt) # "summary" /\ FormatOrDefault(fmt) # "full"

\* Everything an action of an invocation leaves alone besides the aggregator.
serverFrame ==
    <<pc, env, client, periodVars, boardVars, cardVars, listBoardsVars, renderVars>>

\* The invocation at position i becomes r.
Step(i, r) == inv' = [inv EXCEPT ![i] = r]

\* The api module is loaded: export const trelloApi = new TrelloApiClient()
LoadApiModule ==
    /\ pc = "server"
    /\ client.state = "unloaded"
    /\ client' = TrelloApiClient(env)
    /\ UNCHANGED <<pc, env, inv, requests, periodVars, boardVars, activityVars,
                   cardVars, listBoardsVars, renderVars>>

\* The options drawn for an invocation: every combination when it is the only
\* invocation; a board id, a quarter and either report when there are several.
OptionsDrawn(all) ==
    IF Len(inv) = 1 THEN all
    ELSE {o \in all : /\ o.boardId = "B1"
                      /\ o.boardName = NoSearchTerm
                      /\ o.period = [type |-> "Q1", year |-> MaxYear]
                      /\ o.format \in {Undefined, "summary"}}

\* generateReport(options) is called.
CallGenerateReport(i) ==
    /\ client.state = "ready"
    /\ inv[i].pc = "idle"
    /\ \E o \in OptionsDrawn(ReportOptions) :
        Step(i, [inv[i] EXCEPT !.tool = "generateReport", !.options = o,
                               !.pc = "validate"])
    /\ UNCHANGED <<requests, activityVars, serverFrame>>

\* The generate_report tool is called.
CallReportTool(i) ==
    /\ client.state = "ready"
    /\ inv[i].pc = "idle"
    /\ \E o \in OptionsDrawn(ReportToolOptions) :
        Step(i, [inv[i] EXCEPT !.tool = "generate_report", !.options = o,
                               !.pc = "handler"])
    /\ UNCHANGED <<requests, activityVars, serverFrame>>

\* The list_boards tool is called.
CallListTool(i) ==
    /\ client.state = "ready"
    /\ inv[i].pc = "idle"
    /\ \E o \in OptionsDrawn(ListToolOptions) :
        Step(i, [inv[i] EXCEPT !.tool = "list_boards", !.options = o,
                               !.pc = "handler"])
    /\ UNCHANGED <<requests, activityVars, serverFrame>>

\* generate_report: if (!boardId && !boardName) throw
HandlerRejectNoBoard(i) ==
    /\ inv[i].pc = "handler"
    /\ inv[i].tool = "generate_report"
    /\ Falsy(inv[i].options.boardId) /\ FalsyChars(inv[i].options.boardName)
    /\ Step(i, Throw(inv[i], Error(<<"Either boardId or boardName must be provided">>)))
    /\ UNCHANGED <<requests, activityVars, serverFrame>>

\* generate_report: generateReport is called with the year and the format
\* filled in.
HandlerCallsGenerateReport(i) ==
    /\ inv[i].pc = "handler"
    /\ inv[i].tool = "generate_report"
    /\ ~(Falsy(inv[i].options.boardId) /\ FalsyChars(inv[i].options.boardName))
    /\ LET o == inv[i].options
           year == IF o.period.year # NoYear THEN o.period.year ELSE currentYear
       IN  Step(i, [inv[i] EXCEPT
                !.options = [o EXCEPT !.period = [type |-> o.period.type, year |-> year],
                                      !.format = FormatOrDefault(o.format)],
                !.pc = "validate"])
    /\ UNCHANGED <<requests, activityVars, serverFrame>>

\* list_boards: listBoards awaits trelloApi.getBoards()
ListBoardsGetsBoards(i) ==
    /\ inv[i].pc = "handler"
    /\ inv[i].tool = "list_boards"
    /\ Step(i, [inv[i] EXCEPT !.pc = "listBoards"])
    /\ Logged(i, Append(requests[i], Request(i, "getBoards", Undefined)))
    /\ UNCHANGED <<activityVars, serverFrame>>

\* formatBoardsAsMarkdown
formatBoardsAsMarkdown(bs) ==
    IF Len(bs) = 0 THEN <<Section("No boards found.", <<>>)>>
    ELSE <<Section("Trello Boards", bs)>>

\* list_boards: the boards are answered, filtered and returned.
ListBoardsReturns(i) ==
    /\ inv[i].pc = "listBoards"
    /\ LET found == listBoards(inv[i].options.searchTerm)
       IN  Step(i, Return([inv[i] EXCEPT !.boards = found,
                                         !.markdown = formatBoardsAsMarkdown(found)]))
    /\ Logged(i, Settle(i, "ok"))
    /\ UNCHANGED <<activityVars, serverFrame>>

\* generateReport: if (!period || !period.type || !period.year) throw
RejectPeriod(i) ==
    /\ inv[i].pc = "validate"
    /\ InvalidPeriod(inv[i].options.period)
    /\ Step(i, Throw(inv[i],
                     Error(<<"Invalid period specified. Must include type and year.">>)))
    /\ UNCHANGED <<requests, activityVars, serverFrame>>

\* generateReport: if (format !== "summary" && format !== "full") throw
RejectFormat(i) ==
    /\ inv[i].pc = "validate"
    /\ ~InvalidPeriod(inv[i].options.period)
    /\ InvalidFormat(inv[i].options.format)
    /\ Step(i, Throw(inv[i],
                     Error(<<"Invalid format specified. Must be 'summary' or 'full'.">>)))
    /\ UNCHANGED <<requests, activityVars, serverFrame>>

\* The period and the format have passed.
Validated(r) ==
    /\ r.pc = "validate"
    /\ ~InvalidPeriod(r.options.period)
    /\ ~InvalidFormat(r.options.format)

\* generateReport: if (!targetBoardId && boardName) await findBoardByName
SearchesBoard(i) ==
    /\ Validated(inv[i])
    /\ Falsy(inv[i].options.boardId) /\ ~FalsyChars(inv[i].options.boardName)
    /\ Step(i, [inv[i] EXCEPT !.pc = "findBoardByName"])
    /\ Logged(i, Append(requests[i], Request(i, "getBoards", Undefined)))
    /\ UNCHANGED <<activityVars, serverFrame>>

\* generateReport: if (!targetBoardId) throw
RejectNoBoard(i) ==
    /\ Validated(inv[i])
    /\ Falsy(inv[i].options.boardId) /\ FalsyChars(inv[i].options.boardName)
    /\ Step(i, Throw(inv[i], Error(<<"Either boardId or boardName must be provided.">>)))
    /\ UNCHANGED <<requests, activityVars, serverFrame>>

\* generateReport from the target board id on: the date range, then the
\* first fetch.
StartFetching(r, targetBoardId) ==
    [r EXCEPT !.targetBoardId = targetBoardId,
              !.dateRange = getDateRangeForPeriod(r.options.period),
              !.pc = "getBoard"]

\* A defect of FetchesGivenBoard: a board name that comes with the id is
\* searched for all the same.
FetchesGivenBoardUnlessNamed(i) ==
    /\ Validated(inv[i])
    /\ ~Falsy(inv[i].options.boardId)
    /\ IF FalsyChars(inv[i].options.boardName)
       THEN /\ Step(i, StartFetching(inv[i], inv[i].options.boardId))
            /\ Logged(i, Append(requests[i],
                                Request(i, "getBoard", inv[i].options.boardId)))
       ELSE /\ Step(i, [inv[i] EXCEPT !.pc = "findBoardByName"])
            /\ Logged(i, Append(requests[i], Request(i, "getBoards", Undefined)))
    /\ UNCHANGED <<activityVars, serverFrame>>

\* generateReport: the board id was given.
FetchesGivenBoard(i) ==
    /\ Validated(inv[i])
    /\ ~Falsy(inv[i].options.boardId)
    /\ Step(i, StartFetching(inv[i], inv[i].options.boardId))
    /\ Logged(i, Append(requests[i], Request(i, "getBoard", inv[i].options.boardId)))
    /\ UNCHANGED <<activityVars, serverFrame>>

\* generateReport: if (!board) throw
BoardNotFound(i) ==
    /\ inv[i].pc = "findBoardByName"
    /\ findBoardByName(boards, inv[i].options.boardName) = NoBoard
    /\ Step(i, Throw(inv[i], Error(<<"Board with name \"", "${boardName}",
                                     "\" not found.">>)))
    /\ Logged(i, Settle(i, "ok"))
    /\ UNCHANGED <<activityVars, serverFrame>>

\* generateReport: targetBoardId = board.id
BoardFound(i) ==
    /\ inv[i].pc = "findBoardByName"
    /\ LET board == findBoardByName(boards, inv[i].options.boardName)
       IN  /\ board # NoBoard
           /\ Step(i, StartFetching(inv[i], board.id))
           /\ Logged(i, Append(Settle(i, "ok"), Request(i, "getBoard", board.id)))
    /\ UNCHANGED <<activityVars, serverFrame>>

\* Where an invocation awaits a fetch whose failure ends it.
FetchPositions ==
    {"listBoards", "findBoardByName", "getBoard", "getLists", "getCards",
     "getMembers", "getLabels", "getActions"}

\* A defect of FetchFails: the request that failed is issued once more.
FetchFailsRetried(i) ==
    /\ inv[i].pc \in FetchPositions
    /\ \A k \in 1..Len(requests[i]) : requests[i][k].state # "failed"
    /\ Logged(i, Append(Settle(i, "failed"),
                        [requests[i][Awaited(i)] EXCEPT !.state = "pending"]))
    /\ UNCHANGED <<inv, activityVars, serverFrame>>

\* get() throws; nothing of generateReport or listBoards catches it.
FetchFails(i) ==
    /\ inv[i].pc \in FetchPositions
    /\ \E error \in FetchErrors : Step(i, Throw(inv[i], error))
    /\ Logged(i, Settle(i, "failed"))
    /\ UNCHANGED <<activityVars, serverFrame>>

\* The members the API answers for the board.
BoardMembers == <<[id |-> "M1"]>>

\* const boardInfo = await trelloApi.getBoard(targetBoardId)
GotBoard(i) ==
    /\ inv[i].pc = "getBoard"
    /\ \E k \in 1..Len(boards) :
        /\ boards[k].id = inv[i].targetBoardId
        /\ Step(i, [inv[i] EXCEPT !.boardInfo = boards[k], !.pc = "getLists"])
    /\ Logged(i, Append(Settle(i, "ok"), Request(i, "getLists", inv[i].targetBoardId)))
    /\ UNCHANGED <<activityVars, serverFrame>>

\* const lists = await trelloApi.getLists(targetBoardId)
GotLists(i) ==
    /\ inv[i].pc = "getLists"
    /\ Step(i, [inv[i] EXCEPT !.lists = lists, !.pc = "getCards"])
    /\ Logged(i, Append(Settle(i, "ok"), Request(i, "getCards", inv[i].targetBoardId)))
    /\ UNCHANGED <<activityVars, serverFrame>>

\* const cards = await trelloApi.getCards(targetBoardId)
GotCards(i) ==
    /\ inv[i].pc = "getCards"
    /\ Step(i, [inv[i] EXCEPT !.cards = cards, !.pc = "getMembers"])
    /\ Logged(i, Append(Settle(i, "ok"), Request(i, "getMembers", inv[i].targetBoardId)))
    /\ UNCHANGED <<activityVars, serverFrame>>

\* const members = await trelloApi.getMembers(targetBoardId)
GotMembers(i) ==
    /\ inv[i].pc = "getMembers"
    /\ Step(i, [inv[i] EXCEPT !.members = BoardMembers, !.pc = "getLabels"])
    /\ Logged(i, Append(Settle(i, "ok"), Request(i, "getLabels", inv[i].targetBoardId)))
    /\ UNCHANGED <<activityVars, serverFrame>>

\* const labels = await trelloApi.getLabels(targetBoardId)
GotLabels(i) ==
    /\ inv[i].pc = "getLabels"
    /\ Step(i, [inv[i] EXCEPT !.labels = labels, !.pc = "getActions"])
    /\ Logged(i, Append(Settle(i, "ok"), Request(i, "getActions", inv[i].targetBoardId)))
    /\ UNCHANGED <<activityVars, serverFrame>>

\* if (format === "summary") generateReportSummary else generateMarkdownReport
Render(r) ==
    [r EXCEPT !.markdown =
        IF FormatOrDefault(r.options.format) = "summary"
        THEN generateReportSummary(r.options.period, r.lists, r.activity)
        ELSE generateMarkdownReport(r.lists, r.activity)]

\* A defect of ChecklistCards: the loop runs over every fetched card.
ChecklistCardsFetched(r) == r.cards

\* activity.topCards.slice(0, 15)
ChecklistCards(r) == Slice(r.activity.topCards, TopCardsLimit)

\* A defect of ChecklistRequests: the requests for all the cards are issued
\* together, before the first is awaited.
ChecklistRequestsAtOnce(i, tops, k) ==
    IF k = 1 THEN [n \in 1..Len(tops) |-> Request(i, "getCardChecklists", tops[n].id)]
    ELSE <<>>

\* trelloApi.getCardChecklists(card.id) for the k-th card of the loop
ChecklistRequests(i, tops, k) == <<Request(i, "getCardChecklists", tops[k].id)>>

\* The for loop from its k-th card on, up to its next await: the checklists
\* of the card are requested, or past the last card the text is rendered and
\* the result returned.
FetchChecklistsFrom(i, r, log, k) ==
    IF k <= Len(ChecklistCards(r))
    THEN [r |-> [r EXCEPT !.pc = "getCardChecklists", !.k = k],
          requests |-> log \o ChecklistRequests(i, ChecklistCards(r), k)]
    ELSE [r |-> Return(Render(r)), requests |-> log]

\* const actions = await trelloApi.getActions(targetBoardId, dateRange), the
\* aggregate, and the loop up to its first await.
GotActions(i) ==
    /\ inv[i].pc = "getActions"
    /\ LET built == BuildAggregate(inv[i].lists, inv[i].cards, inv[i].labels, actions)
           next == FetchChecklistsFrom(
                       i, [inv[i] EXCEPT !.actions = actions, !.activity = built],
                       Settle(i, "ok"), 1)
       IN  /\ Step(i, next.r)
           /\ Logged(i, next.requests)
           /\ activity' = built
           /\ firstActivity' = IF runs = 0 THEN built ELSE firstActivity
           /\ runs' = runs + 1
    /\ UNCHANGED serverFrame

\* The checklists the API answers for a card.
CardChecklists(cardId) == <<[id |-> "K", idCard |-> cardId]>>

\* activity.cardChecklists.set(card.id, checklists), and the loop goes on
GotChecklists(i) ==
    /\ inv[i].pc = "getCardChecklists"
    /\ LET card == ChecklistCards(inv[i])[inv[i].k]
           r == [inv[i] EXCEPT !.activity.cardChecklists =
                    MapSet(@, card.id, CardChecklists(card.id))]
           next == FetchChecklistsFrom(i, r, Settle(i, "ok"), inv[i].k + 1)
       IN  /\ Step(i, next.r)
           /\ Logged(i, next.requests)
    /\ UNCHANGED <<activityVars, serverFrame>>

\* A defect of CatchChecklistsError: the error leaves generateReport.
ChecklistsErrorUncaught(r, error) == Throw(r, error)

\* catch (error) { console.error(...) }
CatchChecklistsError(r, error) == r

\* Most checklist fetches that fail within one invocation.
MaxChecklistFailures == 2

\* The checklist requests of invocation i that have failed.
FailedChecklists(i) ==
    {k \in 1..Len(requests[i]) :
        requests[i][k].op = "getCardChecklists" /\ requests[i][k].state = "failed"}

\* The checklists fetch throws, and the loop goes on.
ChecklistsFail(i) ==
    /\ inv[i].pc = "getCardChecklists"
    /\ Cardinality(FailedChecklists(i)) < MaxChecklistFailures
    /\ \E error \in FetchErrors :
        LET r == CatchChecklistsError(inv[i], error)
            next == IF r.pc = "done" THEN [r |-> r, requests |-> Settle(i, "failed")]
                    ELSE FetchChecklistsFrom(i, r, Settle(i, "failed"), inv[i].k + 1)
        IN  /\ Step(i, next.r)
            /\ Logged(i, next.requests)
    /\ UNCHANGED <<activityVars, serverFrame>>

(***************************************************************************)
(* SpecServer: the environment and the board the API answers are drawn;     *)
(* the api module is loaded and one invocation is made and runs to its end. *)
(* SpecConcurrent: two invocations, interleaved at their awaits.            *)
(***************************************************************************)

\* The boards of the member with the lists, cards and labels of the board the
\* invocations fetch: nothing at all, a board whose cards carry a label that
\* is not among its labels, and a second board.
Upstream ==
    {[boards |-> <<>>, lists |-> <<>>, cards |-> <<>>, labels |-> <<>>],
     [boards |-> <<[id |-> "B1", name |-> <<"P", "x">>]>>,
      lists |-> <<[id |-> "L1", name |-> ListName["L1"]]>>,
      cards |-> <<Card(1, <<"B1", "B2">>)>>,
      labels |-> <<[id |-> "B1", name |-> "B1"]>>],
     [boards |-> <<[id |-> "B2", name |-> <<"x", "p">>],
                   [id |-> "B1", name |-> <<"x", "P">>]>>,
      lists |-> <<[id |-> "L1", name |-> ListName["L1"]],
                  [id |-> "L2", name |-> ListName["L2"]]>>,
      cards |-> <<Card(1, <<"B1">>), Card(2, <<>>)>>,
      labels |-> <<[id |-> "B1", name |-> "B1"], [id |-> "B2", name |-> "B2"]>>]}

\* A card created on the first list, the first card moved from the first list
\* to the second, a comment on the second card.
ServerEvents ==
    {Event("M1", "createCard", "L1", CardId(1), Undefined, Undefined),
     Event("M1", "updateCard", Undefined, CardId(1), "L1", "L2"),
     Event("M2", "commentCard", Undefined, CardId(2), Undefined, Undefined)}

InitUpstream ==
    /\ pc = "server"
    /\ env \in [TRELLO_API_KEY : {Undefined, "", "key"},
                TRELLO_API_TOKEN : {Undefined, "", "token"}]
    /\ client = NoClient
    /\ \E u \in Upstream :
        /\ boards = u.boards
        /\ lists = u.lists
        /\ cards = u.cards
        /\ labels = u.labels
    /\ actions \in SeqsUpTo(ServerEvents, MaxEvents)
    /\ inputs0 = Idle
    /\ period = Idle
    /\ currentYear = MaxYear
    /\ dateRange = Idle
    /\ searchTerm = NoSearchTerm
    /\ boardsResult = Idle
    /\ IdleActivityVars /\ IdleCardVars /\ IdleRenderVars

InitServer ==
    /\ InitUpstream
    /\ inv = <<NotStarted>>
    /\ requests = <<<<>>>>

NextServer ==
    \/ LoadApiModule
    \/ \E i \in DOMAIN inv : CallGenerateReport(i)
    \/ \E i \in DOMAIN inv : CallReportTool(i)
    \/ \E i \in DOMAIN inv : CallListTool(i)
    \/ \E i \in DOMAIN inv : HandlerRejectNoBoard(i)
    \/ \E i \in DOMAIN inv : HandlerCallsGenerateReport(i)
    \/ \E i \in DOMAIN inv : ListBoardsGetsBoards(i)
    \/ \E i \in DOMAIN inv : ListBoardsReturns(i)
    \/ \E i \in DOMAIN inv : RejectPeriod(i)
    \/ \E i \in DOMAIN inv : RejectFormat(i)
    \/ \E i \in DOMAIN inv : SearchesBoard(i)
    \/ \E i \in DOMAIN inv : RejectNoBoard(i)
    \/ \E i \in DOMAIN inv : FetchesGivenBoard(i)
    \/ \E i \in DOMAIN inv : BoardNotFound(i)
    \/ \E i \in DOMAIN inv : BoardFound(i)
    \/ \E i \in DOMAIN inv : FetchFails(i)
    \/ \E i \in DOMAIN inv : GotBoard(i)
    \/ \E i \in DOMAIN inv : GotLists(i)
    \/ \E i \in DOMAIN inv : GotCards(i)
    \/ \E i \in DOMAIN inv : GotMembers(i)
    \/ \E i \in DOMAIN inv : GotLabels(i)
    \/ \E i \in DOMAIN inv : GotActions(i)
    \/ \E i \in DOMAIN inv : GotChecklists(i)
    \/ \E i \in DOMAIN inv : ChecklistsFail(i)

SpecServer == InitServer /\ [][NextServer]_vars

\* The events the board gains while invocations run.
LaterEvents ==
    {Event("M1", "createCard", "L1", CardId(1), Undefined, Undefined),
     Event("M1", "updateCard", Undefined, CardId(2), "L1", "L2")}

\* Two invocations of generateReport on a board with two lists and two cards,
\* the credentials set, no event yet.
InitConcurrent ==
    /\ pc = "server"
    /\ env = [TRELLO_API_KEY |-> "key", TRELLO_API_TOKEN |-> "token"]
    /\ client = NoClient
    /\ inv = <<NotStarted, NotStarted>>
    /\ requests = <<<<>>, <<>>>>
    /\ boards = <<[id |-> "B1", name |-> <<"P", "x">>]>>
    /\ lists = <<[id |-> "L1", name |-> ListName["L1"]],
                 [id |-> "L2", name |-> ListName["L2"]]>>
    /\ cards = <<Card(1, <<"B1">>), Card(2, <<>>)>>
    /\ labels = <<[id |-> "B1", name |-> "B1"]>>
    /\ actions = <<>>
    /\ inputs0 = Idle
    /\ period = Idle
    /\ currentYear = MaxYear
    /\ dateRange = Idle
    /\ searchTerm = NoSearchTerm
    /\ boardsResult = Idle
    /\ IdleActivityVars /\ IdleCardVars /\ IdleRenderVars

\* Someone acts on the board: the API answers one more event from now on.
BoardChanges ==
    /\ pc = "server"
    /\ Len(inv) > 1
    /\ Len(actions) < MaxEvents
    /\ \E e \in LaterEvents : actions' = Append(actions, e)
    /\ UNCHANGED <<pc, lists, cards, labels, inputs0, periodVars, activityVars,
                   cardVars, listBoardsVars, renderVars, serverVars>>

NextConcurrent ==
    \/ LoadApiModule
    \/ BoardChanges
    \/ \E i \in DOMAIN inv : CallGenerateReport(i)
    \/ \E i \in DOMAIN inv : FetchesGivenBoard(i)
    \/ \E i \in DOMAIN inv : GotBoard(i)
    \/ \E i \in DOMAIN inv : GotLists(i)
    \/ \E i \in DOMAIN inv : GotCards(i)
    \/ \E i \in DOMAIN inv : GotMembers(i)
    \/ \E i \in DOMAIN inv : GotLabels(i)
    \/ \E i \in DOMAIN inv : GotActions(i)
    \/ \E i \in DOMAIN inv : GotChecklists(i)
    \/ \E i \in DOMAIN inv : ChecklistsFail(i)

SpecConcurrent == InitConcurrent /\ [][NextConcurrent]_vars

(***************************************************************************)
(* SpecLargeBoard: one invocation of generateReport on a board with about   *)
(* as many cards as the top cards' limit, from the call to the end of the   *)
(* checklist loop.                                                          *)
(***************************************************************************)

\* The first card has no event, the last card has two, the others have one
\* each: the last card ranks first.
LargeBoardEvents(n) ==
    <<CardEvent(CardId(n))>> \o [k \in 1..(n - 1) |-> CardEvent(CardId(k + 1))]

InitLargeBoard ==
    /\ pc = "server"
    /\ env = [TRELLO_API_KEY |-> "key", TRELLO_API_TOKEN |-> "token"]
    /\ client = NoClient
    /\ inv = <<NotStarted>>
    /\ requests = <<<<>>>>
    /\ boards = <<[id |-> "B1", name |-> <<"P", "x">>]>>
    /\ lists = <<[id |-> "L1", name |-> ListName["L1"]]>>
    /\ \E n \in (TopCardsLimit - 1)..MaxCards :
          /\ cards = [i \in 1..n |-> Card(i, <<>>)]
          /\ actions = LargeBoardEvents(n)
    /\ labels = <<>>
    /\ inputs0 = Idle
    /\ period = Idle
    /\ currentYear = MaxYear
    /\ dateRange = Idle
    /\ searchTerm = NoSearchTerm
    /\ boardsResult = Idle
    /\ IdleActivityVars /\ IdleCardVars /\ IdleRenderVars

\* generateReport is called for the board, by its id, for a quarter.
CallForBoard(i) ==
    /\ client.state = "ready"
    /\ inv[i].pc = "idle"
    /\ \E f \in {"summary", "full"} :
        Step(i, [inv[i] EXCEPT
                    !.tool = "generateReport",
                    !.options = Options("B1", NoSearchTerm,
                                        [type |-> "Q1", year |-> MaxYear], f,
                                        NoSearchTerm),
                    !.pc = "validate"])
    /\ UNCHANGED <<requests, activityVars, serverFrame>>

NextLargeBoard ==
    \/ LoadApiModule
    \/ \E i \in DOMAIN inv : CallForBoard(i)
    \/ \E i \in DOMAIN inv : FetchesGivenBoard(i)
    \/ \E i \in DOMAIN inv : FetchFails(i)
    \/ \E i \in DOMAIN inv : GotBoard(i)
    \/ \E i \in DOMAIN inv : GotLists(i)
    \/ \E i \in DOMAIN inv : GotCards(i)
    \/ \E i \in DOMAIN inv : GotMembers(i)
    \/ \E i \in DOMAIN inv : GotLabels(i)
    \/ \E i \in DOMAIN inv : GotActions(i)
    \/ \E i \in DOMAIN inv : GotChecklists(i)
    \/ \E i \in DOMAIN inv : ChecklistsFail(i)

SpecLargeBoard == InitLargeBoard /\ [][NextLargeBoard]_vars

(***************************************************************************)
(* Claims about getDateRangeForPeriod (SpecPeriod).                         *)
(***************************************************************************)

Resolved(type) ==
    pc = "resolved" /\ period.type = type /\ period.year # NoYear

QuarterRange(q, y) == getDateRangeForPeriod([type |-> q, year |-> y])
YearRange(y) == getDateRangeForPeriod([type |-> "year", year |-> y])

C2_QuartersPartitionYear ==
    (pc = "resolved" /\ period.type # "year" /\ period.year # NoYear) =>
        LET y == period.year IN
        /\ dateRange = QuarterRange(period.type, y)
        /\ \A i \in 1..3 :
              /\ Before(QuarterRange(Quarters[i], y).end,
                        QuarterRange(Quarters[i + 1], y).start)
              /\ ~ Before(NextDayStart(QuarterRange(Quarters[i], y).end),
                          QuarterRange(Quarters[i + 1], y).start)
        /\ QuarterRange("Q1", y).start = YearRange(y).start
        /\ QuarterRange("Q4", y).end = YearRange(y).end

\* C3: a quarter period starts at the first instant of month 1, 4, 7 or 10 and
\* ends at the last instant of the last day of the quarter, inside the quarter's
\* third month and not in the following month.
C3_QuarterBounds ==
    (pc = "resolved" /\ period.type # "year" /\ period.year # NoYear) =>
        LET first == CASE period.type = "Q1" -> 0 [] period.type = "Q2" -> 3
                       [] period.type = "Q3" -> 6 [] period.type = "Q4" -> 9
        IN  /\ dateRange.start = [year |-> period.year, month |-> first, date |-> 1,
                                  hours |-> 0, minutes |-> 0, seconds |-> 0, ms |-> 0]
            /\ dateRange.end.year = period.year
            /\ dateRange.end.month = first + 2
            /\ dateRange.end.date = DaysInMonth(period.year, first + 2)
            /\ dateRange.end.hours = 23 /\ dateRange.end.minutes = 59
            /\ dateRange.end.seconds = 59


(***************************************************************************)
(* Claims about calculateBoardActivity (SpecActivity).                      *)
(***************************************************************************)

Aggregated == pc = "activity" /\ runs >= 1

IsMove(action) ==
    action.type = "updateCard" /\ action.listBefore # Undefined
        /\ action.listAfter # Undefined

RECURSIVE SumFlow(_, _)
SumFlow(flow, i) ==
    IF i = 0 THEN 0
    ELSE SumFlow(flow, i - 1) + SumValues(flow[i].value, Len(flow[i].value))

\* C4: for every input, events that move a card from a list to the same list
\* included, cardFlow holds no nonzero cell whose source list is its target.
C4_NoSelfEdge ==
    Aggregated =>
        \A i \in 1..Len(activity.cardFlow) :
            \A j \in 1..Len(activity.cardFlow[i].value) :
                activity.cardFlow[i].value[j].key = activity.cardFlow[i].key
                    => activity.cardFlow[i].value[j].value = 0

\* C5: for every input, move events whose source list was not fetched included,
\* the sum of all cells of cardFlow equals cardsMoved.
C5_FlowSumIsCardsMoved ==
    Aggregated =>
        SumFlow(activity.cardFlow, Len(activity.cardFlow)) = activity.cardsMoved

MapAsFunction(m) == [k \in MapKeys(m) |-> MapGet(m, k)]

\* The totals of an aggregate, whatever the insertion order of its maps.
Totals(a) ==
    [cardsCreated |-> a.cardsCreated, cardsMoved |-> a.cardsMoved,
     commentsAdded |-> a.commentsAdded,
     membersActive |-> MapAsFunction(a.membersActive),
     listActivity |-> MapAsFunction(a.listActivity),
     cardFlow |-> [k \in MapKeys(a.cardFlow) |->
                      MapAsFunction(MapGet(a.cardFlow, k))]]

Permuted(q, p) == [i \in 1..Len(q) |-> q[p[i]]]

\* C7: for every permutation of the events, lists and cards fixed, the totals
\* (the three counts, every member's tally, every list's counter, every cardFlow
\* cell) are the same.
C7_EventOrderIrrelevant ==
    Aggregated =>
        \A p \in Permutations(1..Len(actions)) :
            Totals(calculateBoardActivity(lists, cards, Permuted(actions, p)))
                = Totals(activity)

\* Two different events, the second of a member and on a list the first does not
\* name: the maps of the two orders differ in insertion order.
C7_Witness ==
    /\ Aggregated
    /\ Len(actions) = 2
    /\ IsMove(actions[1]) /\ actions[2].type = "createCard"
    /\ actions[1].idMemberCreator # actions[2].idMemberCreator
    /\ calculateBoardActivity(lists, cards, <<actions[2], actions[1]>>) # activity


(***************************************************************************)
(* Claims about groupCardsByLabel and findTopCards (SpecCards).             *)
(***************************************************************************)

Grouped == pc \in {"grouped", "ranked"}

\* How many times the card with this id is in a group.
Occurrences(group, cardId) ==
    Cardinality({k \in 1..Len(group) : group[k].id = cardId})

\* The entries of cardsByLabel whose group holds the card with this id.
GroupsHolding(cardId) ==
    {g \in 1..Len(cardsByLabel) : Occurrences(cardsByLabel[g].value, cardId) > 0}

\* C8: a card carrying N label ids is in exactly N label groups, once in the
\* group of each of its labels, and every fetched label that no card carries has
\* a group, which is empty.
C8_LabelGroups ==
    Grouped =>
        /\ \A i \in 1..Len(cards) :
              /\ Cardinality(GroupsHolding(cards[i].id)) = Len(cards[i].idLabels)
              /\ \A j \in 1..Len(cards[i].idLabels) :
                    \E g \in 1..Len(cardsByLabel) :
                        /\ cardsByLabel[g].key = cards[i].idLabels[j]
                        /\ Occurrences(cardsByLabel[g].value, cards[i].id) = 1
        /\ \A l \in 1..Len(labels) :
              \E g \in 1..Len(cardsByLabel) :
                  /\ cardsByLabel[g].key = labels[l].id
                  /\ (\A i \in 1..Len(cards) :
                        \A j \in 1..Len(cards[i].idLabels) :
                            cards[i].idLabels[j] # labels[l].id)
                       => cardsByLabel[g].value = <<>>

\* A card with two labels, of which one was not fetched, next to a fetched label
\* that no card carries.
C8_Witness ==
    /\ Grouped
    /\ Len(cards) = 2
    /\ cards[1].idLabels = <<"B1", "B2">> /\ cards[2].idLabels = <<"B2">>
    /\ labels = <<[id |-> "B2", name |-> "B2"], [id |-> "B3", name |-> "B3"]>>
    /\ Cardinality(GroupsHolding(cards[1].id)) = 2
    /\ Len(MapGet(cardsByLabel, "B2")) = 2
    /\ MapGet(cardsByLabel, "B3") = <<>>

\* The number of events that reference the card with this id.
References(cardId) ==
    Cardinality({k \in 1..Len(actions) : actions[k].card = cardId})

\* The fetched cards that at least one event references.
ReferencedCards == {i \in 1..Len(cards) : References(cards[i].id) > 0}

\* C9: topCards has at most 15 cards and at most as many as there are fetched
\* cards referenced by an event, holds only such cards, and is ordered by
\* non-increasing number of referencing events.
C9_TopCards ==
    pc = "ranked" =>
        /\ Len(topCards) <= 15
        /\ Len(topCards) <= Cardinality(ReferencedCards)
        /\ \A k \in 1..Len(topCards) :
              \E i \in ReferencedCards : cards[i] = topCards[k]
        /\ \A k \in 1..(Len(topCards) - 1) :
              References(topCards[k].id) >= References(topCards[k + 1].id)

\* More than 15 referenced cards, of which the last fetched is referenced most.
C9_Witness ==
    /\ pc = "ranked"
    /\ Cardinality(ReferencedCards) > 15
    /\ Len(topCards) = 15
    /\ topCards[1].id = cards[Len(cards)].id
    /\ References(topCards[1].id) > References(topCards[15].id)

(***************************************************************************)
(* Claims about listBoards (SpecBoards).                                    *)
(***************************************************************************)

\* The two characters are the same letter, whatever their case.
SameLetter(c, d) == c = d \/ {c, d} = {"P", "p"}

\* name contains term as a case-insensitive substring.
ContainsIgnoringCase(name, term) ==
    \E off \in 0..(Len(name) - Len(term)) :
        \A j \in 1..Len(term) : SameLetter(name[off + j], term[j])

\* The positions of the fetched boards listBoards is to return.
Matching ==
    {i \in 1..Len(boards) :
        searchTerm = NoSearchTerm \/ ContainsIgnoringCase(boards[i].name, searchTerm)}

\* C10: listBoards returns exactly the fetched boards whose name contains
\* searchTerm as a case-insensitive substring, in fetch order; with an absent or
\* empty searchTerm it returns all fetched boards unchanged.
C10_ListBoardsFilter ==
    pc = "listed" =>
        /\ Len(boardsResult) = Cardinality(Matching)
        /\ \A k \in 1..Len(boardsResult) :
              \E i \in Matching :
                  /\ boardsResult[k] = boards[i]
                  /\ Cardinality({j \in Matching : j < i}) = k - 1
        /\ (searchTerm = NoSearchTerm \/ searchTerm = <<>>) => boardsResult = boards

\* Of two fetched boards the second matches a term spelled in another case,
\* the first does not.
C10_Witness ==
    /\ pc = "listed"
    /\ searchTerm = <<"P">>
    /\ Len(boards) = 2
    /\ boards[1].name = <<"x">> /\ boards[2].name = <<"x", "p">>
    /\ boardsResult = <<boards[2]>>


(***************************************************************************)
(* Claims about the renderers (SpecRender).                                 *)
(***************************************************************************)

RenderedAs(f) == pc = "rendered" /\ format = f

\* The suggestion lines of the Recommendations section.
Recommendations == markdown[1].body

HasLine(kind) == \E k \in 1..Len(Recommendations) : Recommendations[k].line = kind

ListLineKinds == {"prioritize", "overcommitment", "review"}

ListLines == {k \in 1..Len(Recommendations) : Recommendations[k].line \in ListLineKinds}

\* The name contains one of the words the list heuristics look for, in any
\* mix of upper and lower case.
NamesWorkflowStage(name) ==
    \E word \in {<<"b", "a", "c", "k", "l", "o", "g">>, <<"t", "o", "d", "o">>,
                 <<"p", "r", "o", "g", "r", "e", "s", "s">>,
                 <<"d", "o", "i", "n", "g">>, <<"r", "e", "v", "i", "e", "w">>,
                 <<"v", "a", "l", "i", "d", "a", "t", "i", "o", "n">>} :
        \E i \in 0..(Len(name) - Len(word)) :
            \A j \in 1..Len(word) : LowerChar(name[i + j]) = word[j]

\* C12, as stated: with zero completed cards the Recommendations section of
\* the summary holds the zero-completion suggestion and no other heuristic
\* line, whatever the name of the most active list.
C12_OnlyZeroCompletionLine ==
    (RenderedAs("summary") /\ Len(activity.completedCards) = 0)
        => Recommendations = <<Suggestion("investigate", <<>>)>>

\* C12, amended: with zero completed cards the Recommendations section of the
\* summary starts with the zero-completion suggestion and never holds the
\* low-completion one; a single list-name suggestion follows it exactly when
\* the most active list is a fetched list whose name contains one of the
\* heuristics' words, and nothing else follows.
C12_ZeroCompletionLine ==
    (RenderedAs("summary") /\ Len(activity.completedCards) = 0)
        => LET mostActiveList == findMostActiveList(activity, lists)
           IN  /\ Len(Recommendations) >= 1
               /\ Recommendations[1] = Suggestion("investigate", <<>>)
               /\ ~HasLine("bottlenecks")
               /\ ListLines = 2..Len(Recommendations)
               /\ Len(Recommendations) <= 2
               /\ Len(Recommendations) = 2
                    <=> /\ mostActiveList # NoList
                        /\ NamesWorkflowStage(mostActiveList.name)
               /\ \A k \in ListLines : Recommendations[k].list = mostActiveList.name

\* No card completed, the most active list is the backlog: two suggestions.
C12_Witness ==
    /\ RenderedAs("summary")
    /\ Len(activity.completedCards) = 0
    /\ actions = <<Event("M1", "createCard", "L3", Undefined, Undefined, Undefined)>>
    /\ Len(lists) = 1 /\ lists[1].id = "L3"
    /\ Recommendations = <<Suggestion("investigate", <<>>),
                           Suggestion("prioritize", ListName["L3"])>>

FetchedListIds == {lists[i].id : i \in 1..Len(lists)}

\* Every move event runs between two fetched lists.
MovesBetweenFetchedLists ==
    \A k \in 1..Len(actions) :
        IsMove(actions[k])
            => actions[k].listBefore \in FetchedListIds
               /\ actions[k].listAfter \in FetchedListIds

\* The number of move events from one list to another.
Moves(source, target) ==
    Cardinality({k \in 1..Len(actions) :
        /\ IsMove(actions[k])
        /\ actions[k].listBefore = source
        /\ actions[k].listAfter = target})

\* The "### From" subsections of the Card Flow section, none without it.
FromSubsections == IF Len(markdown) < 2 THEN <<>> ELSE markdown[2].body

SubsectionsFrom(source) ==
    {i \in 1..Len(FromSubsections) : FromSubsections[i].from.id = source}

LinesTo(subsection, target) ==
    {j \in 1..Len(subsection.lines) : subsection.lines[j].to.id = target}

\* C13: on a board whose move events all run between fetched lists, the full
\* report has a "From" subsection for a list exactly when some move event
\* leaves it, naming the list, and in it one "To" line for each list some of
\* those events arrive at and for no other list, with the number of the move
\* events from the one to the other as its count.
C13_CardFlowSection ==
    (RenderedAs("full") /\ MovesBetweenFetchedLists)
        => \A s \in FetchedListIds :
            /\ Cardinality(SubsectionsFrom(s)) =
                  IF \E t \in FetchedListIds : Moves(s, t) > 0 THEN 1 ELSE 0
            /\ \A i \in SubsectionsFrom(s) :
                /\ FromSubsections[i].from.name = ListName[s]
                /\ \A j \in 1..Len(FromSubsections[i].lines) :
                      FromSubsections[i].lines[j].to.id \in FetchedListIds
                /\ \A t \in FetchedListIds :
                    /\ Cardinality(LinesTo(FromSubsections[i], t)) =
                          IF Moves(s, t) > 0 THEN 1 ELSE 0
                    /\ \A j \in LinesTo(FromSubsections[i], t) :
                        /\ FromSubsections[i].lines[j].count = Moves(s, t)
                        /\ FromSubsections[i].lines[j].to.name = ListName[t]

\* Two moves from the first list to the second: From L1 / To L2: 2, no From L2.
C13_Witness ==
    /\ RenderedAs("full")
    /\ FetchedListIds = {"L1", "L2"}
    /\ Moves("L1", "L2") = 2
    /\ Len(FromSubsections) = 1
    /\ FromSubsections[1].from.id = "L1"
    /\ Len(FromSubsections[1].lines) = 1
    /\ FromSubsections[1].lines[1].to.id = "L2"
    /\ FromSubsections[1].lines[1].count = 2

(***************************************************************************)
(* Claims about generateReport, the handlers and the client (SpecServer).   *)
(***************************************************************************)

Invocations == IF pc = "server" THEN DOMAIN inv ELSE {}

\* The invocations that are direct calls of generateReport and have ended.
EndedCalls == {i \in Invocations : inv[i].tool = "generateReport" /\ inv[i].pc = "done"}

\* The requests issued on behalf of invocation i, in the order of their issue.
RequestsOf(i) == requests[i]

\* Invocation i has ended by throwing an Error with this message.
Threw(i, message) ==
    /\ inv[i].outcome.status = "thrown"
    /\ inv[i].outcome.error = [isError |-> TRUE, message |-> message]

\* No text was rendered and nothing was returned.
NoReport(i) == inv[i].outcome.status # "returned" /\ inv[i].markdown = NoMarkdown

ValidPeriodAndFormat(o) ==
    /\ o.period # NoPeriod
    /\ o.period.type \in PeriodTypes
    /\ o.period.year \in Years
    /\ o.format \in {Undefined, "summary", "full"}

\* C11: generateReport with a valid period and format fails with 'Either
\* boardId or boardName must be provided.' when neither is supplied, and with
\* the 'not found' error when only boardName is supplied and no fetched board's
\* name contains it in any mix of case; either way the invocation issues no
\* request for a board, lists, cards, members, labels, events or checklists
\* and returns no report.
C11_BoardValidation ==
    \A i \in EndedCalls :
        LET o == inv[i].options
        IN  ValidPeriodAndFormat(o) /\ o.boardId \in {Undefined, ""} =>
              /\ o.boardName \in {NoSearchTerm, <<>>} =>
                    /\ Threw(i, <<"Either boardId or boardName must be provided.">>)
                    /\ RequestsOf(i) = <<>>
                    /\ NoReport(i)
              /\ ( /\ o.boardName \notin {NoSearchTerm, <<>>}
                   /\ Len(RequestsOf(i)) > 0
                   /\ RequestsOf(i)[1].state = "ok"
                   /\ \A k \in 1..Len(boards) :
                         ~ContainsIgnoringCase(boards[k].name, o.boardName) ) =>
                    /\ Threw(i, <<"Board with name \"", "${boardName}", "\" not found.">>)
                    /\ Len(RequestsOf(i)) = 1
                    /\ RequestsOf(i)[1].op = "getBoards"
                    /\ NoReport(i)

\* A board named "Px" is fetched, the name asked for is "pp": not found.
C11_Witness ==
    /\ pc = "server"
    /\ 1 \in EndedCalls
    /\ ValidPeriodAndFormat(inv[1].options)
    /\ inv[1].options.boardId = Undefined
    /\ inv[1].options.boardName = <<"p", "p">>
    /\ Len(boards) = 1
    /\ Threw(1, <<"Board with name \"", "${boardName}", "\" not found.">>)

\* The invocations whose aggregate has been built.
Aggregating == {i \in Invocations : inv[i].activity # Idle}

IdsOf(q) == {q[k].id : k \in 1..Len(q)}

FlowTargets(cardFlow) ==
    UNION {MapKeys(cardFlow[k].value) : k \in 1..Len(cardFlow)}

\* C14: in the aggregate generateReport builds, every key of listActivity and
\* every source and target key of cardFlow is the id of a fetched list, and
\* every key of cardsByLabel is the id of a fetched label.
C14_AggregateReferences ==
    \A i \in Aggregating :
        LET a == inv[i].activity
        IN  /\ MapKeys(a.listActivity) \subseteq IdsOf(inv[i].lists)
            /\ MapKeys(a.cardFlow) \subseteq IdsOf(inv[i].lists)
            /\ FlowTargets(a.cardFlow) \subseteq IdsOf(inv[i].lists)
            /\ MapKeys(a.cardsByLabel) \subseteq IdsOf(inv[i].labels)

\* The invocations of a report past their events fetch.
PastEvents(i) ==
    \E k \in 1..Len(requests[i]) :
        requests[i][k].op = "getActions" /\ requests[i][k].state = "ok"

\* The checklist requests of invocation i for a card, by their state.
ChecklistRequestsFor(i, cardId, states) ==
    {k \in 1..Len(requests[i]) :
        /\ requests[i][k].op = "getCardChecklists"
        /\ requests[i][k].arg = cardId
        /\ requests[i][k].state \in states}

\* C15: whichever checklist fetches fail, generateReport returns rendered
\* text; the checklists of every top card are requested once, cardChecklists
\* has an entry exactly for the top cards whose fetch succeeded, and the rest
\* of the aggregate and the text are what they are when no fetch fails.
C15_ChecklistFailuresIsolated ==
    \A i \in Invocations :
        (inv[i].pc = "done" /\ PastEvents(i)) =>
            LET a == inv[i].activity
                whole == BuildAggregate(inv[i].lists, inv[i].cards, inv[i].labels,
                                        inv[i].actions)
                tops == IdsOf(Slice(whole.topCards, TopCardsLimit))
            IN  /\ inv[i].outcome.status = "returned"
                /\ inv[i].markdown # NoMarkdown
                /\ inv[i].markdown = Render([inv[i] EXCEPT !.activity = whole]).markdown
                /\ \A c \in tops :
                      Cardinality(ChecklistRequestsFor(i, c, {"ok", "failed"})) = 1
                /\ MapKeys(a.cardChecklists) =
                      {c \in tops : ChecklistRequestsFor(i, c, {"ok"}) # {}}
                /\ \A k \in 1..Len(a.cardChecklists) :
                      a.cardChecklists[k].value = CardChecklists(a.cardChecklists[k].key)
                /\ [a EXCEPT !.cardChecklists = <<>>] = whole

\* Two top cards: the checklists of the first fail, those of the second do
\* not, and the report is returned.
C15_Witness ==
    /\ pc = "server"
    /\ inv[1].pc = "done"
    /\ inv[1].outcome.status = "returned"
    /\ ChecklistRequestsFor(1, CardId(1), {"failed"}) # {}
    /\ ChecklistRequestsFor(1, CardId(2), {"ok"}) # {}
    /\ MapKeys(inv[1].activity.cardChecklists) = {CardId(2)}

InvalidPeriodError == <<"Invalid period specified. Must include type and year.">>
InvalidFormatError == <<"Invalid format specified. Must be 'summary' or 'full'.">>

\* The period is absent or lacks its type or its year.
PeriodIncomplete(p) ==
    IF p = NoPeriod THEN TRUE ELSE p.type = Undefined \/ p.year = NoYear

\* The format is present and neither 'summary' nor 'full'.
FormatUnknown(fmt) == fmt \notin {Undefined, "summary", "full"}

\* The calls of generateReport, ended or not.
Calls == {i \in Invocations : inv[i].tool = "generateReport"}

Prefix(tool) ==
    IF tool = "list_boards" THEN "Failed to list boards: "
    ELSE "Failed to generate report: "

\* The invocations of a tool that have ended.
EndedTools ==
    {i \in Invocations : inv[i].tool \in {"list_boards", "generate_report"}
                         /\ inv[i].pc = "done"}

\* Something was thrown while invocation i was handled: the handler's own
\* check or a validation of generateReport failed, no board had the name, or
\* a fetch outside the checklist loop failed.
Raised(i) ==
    \/ inv[i].tool = "generate_report"
          /\ \/ inv[i].options.boardId \in {Undefined, ""}
                   /\ inv[i].options.boardName \in {NoSearchTerm, <<>>}
             \/ inv[i].targetBoardId = Undefined
    \/ \E k \in 1..Len(requests[i]) :
          /\ requests[i][k].op # "getCardChecklists"
          /\ requests[i][k].state = "failed"

\* C17: every error raised while list_boards is handled reaches the caller as
\* an Error whose message starts with 'Failed to list boards: ', every error
\* raised while generate_report is handled as one whose message starts with
\* 'Failed to generate report: ', and an invocation in which an error was
\* raised never returns a response.
C17_ErrorsWrapped ==
    \A i \in EndedTools :
        /\ inv[i].outcome.status \in {"thrown", "returned"}
        /\ inv[i].outcome.status = "thrown" =>
              /\ inv[i].outcome.error.isError
              /\ Len(inv[i].outcome.error.message) >= 2
              /\ inv[i].outcome.error.message[1] = Prefix(inv[i].tool)
        /\ Raised(i) <=> inv[i].outcome.status = "thrown"

\* A fetch of generate_report fails with the client's error: it reaches the
\* caller prefixed.
C17_Witness ==
    /\ pc = "server"
    /\ 1 \in EndedTools
    /\ inv[1].tool = "generate_report"
    /\ \E k \in 1..Len(requests[1]) :
          requests[1][k].op = "getCards" /\ requests[1][k].state = "failed"
    /\ inv[1].outcome.error =
          Error(<<"Failed to generate report: ", "Trello API error: ", "${message}">>)

\* The credential is missing from the environment or empty.
Missing(x) == x \in {Undefined, ""}

\* C18: with the API key or the API token missing or empty in the
\* environment the construction of the client fails and no request is ever
\* issued; a request is issued only once the client is constructed, with both
\* credentials present, and carries them.
C18_ClientConstruction ==
    pc = "server" =>
        /\ client.state # "unloaded" =>
              (client.state = "failed"
                  <=> Missing(env.TRELLO_API_KEY) \/ Missing(env.TRELLO_API_TOKEN))
        /\ (Missing(env.TRELLO_API_KEY) \/ Missing(env.TRELLO_API_TOKEN)) =>
              \A i \in DOMAIN inv : requests[i] = <<>> /\ inv[i].pc = "idle"
        /\ \A i \in DOMAIN inv : \A k \in 1..Len(requests[i]) :
              /\ client.state = "ready"
              /\ requests[i][k].key = env.TRELLO_API_KEY
              /\ ~Missing(requests[i][k].key)
              /\ requests[i][k].token = env.TRELLO_API_TOKEN
              /\ ~Missing(requests[i][k].token)

\* The key is set, the token is empty: the construction has failed.
C18_Witness ==
    /\ pc = "server"
    /\ env = [TRELLO_API_KEY |-> "key", TRELLO_API_TOKEN |-> ""]
    /\ client.state = "failed"
    /\ requests[1] = <<>>

\* The place of a request in the order of generateReport's fetches.
FetchOrder ==
    <<"getBoards", "getBoard", "getLists", "getCards", "getMembers", "getLabels",
      "getActions", "getCardChecklists">>

Rank(op) == CHOOSE n \in 1..Len(FetchOrder) : FetchOrder[n] = op

\* The invocations of a report, direct or through the tool.
Reports == {i \in Invocations : inv[i].tool \in {"generateReport", "generate_report"}}

\* C20: an invocation of generateReport never has two requests outstanding;
\* it issues its requests in the order name search (if any), board, lists,
\* cards, members, labels, events, then one checklist request per top card,
\* each after the one before it was answered; the aggregate exists only once
\* the events are fetched and the text only once the last checklist request
\* has been answered or has failed.
C20_SequentialFetches ==
    \A i \in Reports :
        LET mine == RequestsOf(i)
        IN  /\ Cardinality(Pending(i)) <= 1
            /\ \A n \in 1..Len(mine) :
                /\ n < Len(mine) => mine[n].state # "pending"
                /\ n = 1 => mine[n].op \in {"getBoards", "getBoard"}
                /\ n > 1 =>
                    /\ mine[n - 1].op # "getCardChecklists" =>
                          /\ mine[n - 1].state = "ok"
                          /\ Rank(mine[n].op) = Rank(mine[n - 1].op) + 1
                    /\ mine[n - 1].op = "getCardChecklists" =>
                          mine[n].op = "getCardChecklists"
            /\ inv[i].activity # Idle => PastEvents(i)
            /\ inv[i].markdown # NoMarkdown =>
                /\ PastEvents(i)
                /\ Pending(i) = {}
                /\ \A k \in 1..Len(ChecklistCards(inv[i])) :
                      ChecklistRequestsFor(i, ChecklistCards(inv[i])[k].id,
                                           {"ok", "failed"}) # {}

\* A report found by name with two top cards: all eight kinds of request, the
\* checklists of the first card answered while those of the second are awaited.
C20_Witness ==
    /\ pc = "server"
    /\ 1 \in Reports
    /\ Len(requests[1]) = 9
    /\ [n \in 1..7 |-> requests[1][n].op] = SubSeq(FetchOrder, 1, 7)
    /\ requests[1][8].op = "getCardChecklists" /\ requests[1][8].state = "ok"
    /\ requests[1][9].op = "getCardChecklists" /\ requests[1][9].state = "pending"
    /\ inv[1].markdown = NoMarkdown

(***************************************************************************)
(* Claims about concurrent invocations (SpecConcurrent).                    *)
(***************************************************************************)

\* The events of q of a type.
OfType(q, type) == {k \in 1..Len(q) : q[k].type = type}

\* The events of q that move a card.
MovesIn(q) == {k \in 1..Len(q) : IsMove(q[k])}

\* The events of q that count for a list: a card created on it, moved from it
\* or moved to it (a move within the list counts twice).
ListEvents(q, l) ==
    Cardinality({k \in OfType(q, "createCard") : q[k].list = l})
    + Cardinality({k \in MovesIn(q) : q[k].listBefore = l})
    + Cardinality({k \in MovesIn(q) : q[k].listAfter = l})

\* What an invocation has fetched.
Fetched(r) ==
    [lists |-> r.lists, cards |-> r.cards, labels |-> r.labels, actions |-> r.actions]

\* The aggregate without the checklists, which depend on which fetches failed.
WithoutChecklists(a) == [a EXCEPT !.cardChecklists = <<>>]

\* The counters and maps of the aggregate of invocation i are those of its
\* own events.
OwnCounts(i) ==
    LET a == inv[i].activity
        own == inv[i].actions
    IN  /\ a.cardsCreated = Cardinality(OfType(own, "createCard"))
        /\ a.cardsMoved = Cardinality(MovesIn(own))
        /\ a.commentsAdded = Cardinality(OfType(own, "commentCard"))
        /\ \A m \in MemberIds :
              MapGetOr0(a.membersActive, m)
                = Cardinality({k \in 1..Len(own) : own[k].idMemberCreator = m})
        /\ \A l \in ListIds : MapGetOr0(a.listActivity, l) = ListEvents(own, l)
        /\ IdsOf(a.topCards) =
              {c \in IdsOf(inv[i].cards) : \E k \in 1..Len(own) : own[k].card = c}
        /\ MapKeys(a.cardChecklists) \subseteq IdsOf(a.topCards)

\* C19: whether two invocations of generateReport run one after the other or
\* interleaved at their awaits, the aggregate and the text of each are those
\* of its own options and fetched collections: the counters, maps and card
\* subsets of each are those of its own events, whatever the other has built,
\* and two invocations that fetched the same and had the same checklist
\* failures hold the same aggregate and, with the same options, the same text.
C19_NoSharedState ==
    pc = "server" /\ Len(inv) > 1 =>
        /\ \A i \in Aggregating :
            /\ OwnCounts(i)
            /\ WithoutChecklists(inv[i].activity)
                  = WithoutChecklists(BuildAggregate(inv[i].lists, inv[i].cards,
                                                     inv[i].labels, inv[i].actions))
            /\ inv[i].pc = "done" => inv[i].markdown = Render(inv[i]).markdown
        /\ \A i, j \in Aggregating :
            Fetched(inv[i]) = Fetched(inv[j]) =>
                /\ WithoutChecklists(inv[i].activity) = WithoutChecklists(inv[j].activity)
                /\ ( /\ inv[i].pc = "done" /\ inv[j].pc = "done"
                     /\ inv[i].options = inv[j].options
                     /\ requests[i] = requests[j] ) =>
                        /\ inv[i].activity = inv[j].activity
                        /\ inv[i].markdown = inv[j].markdown

\* Both invocations are in their checklist loops at once, the first on the
\* one event it fetched, the second on the two it fetched later.
C19_Witness ==
    /\ pc = "server"
    /\ Len(inv) = 2
    /\ inv[1].pc = "getCardChecklists"
    /\ inv[2].pc = "getCardChecklists"
    /\ Len(inv[1].actions) = 1
    /\ Len(inv[2].actions) = 2
    /\ inv[1].activity.cardsCreated = 1
    /\ inv[2].activity.cardsCreated = 2
    /\ inv[1].options.format # inv[2].options.format

(***************************************************************************)
(* Claims about failed fetches, the checklist loop and the board that is    *)
(* fetched (SpecServer).                                                    *)
(***************************************************************************)

\* The fetches of generateReport whose failure nothing catches.
ReportFetches == {"getBoard", "getLists", "getCards", "getMembers", "getLabels",
                  "getActions"}

\* C21: within one invocation of generateReport no request is issued twice;
\* when the fetch of the board, the lists, the cards, the members, the labels
\* or the events has failed, that request is the last one the invocation
\* issued, the invocation has ended by throwing, and it holds no aggregate
\* and no rendered text.
C21_NoRetryNoPartialResult ==
    \A i \in Reports :
        LET mine == RequestsOf(i)
        IN  /\ \A m, n \in 1..Len(mine) :
                  (mine[m].op = mine[n].op /\ mine[m].arg = mine[n].arg) => m = n
            /\ \A n \in 1..Len(mine) :
                  (mine[n].op \in ReportFetches /\ mine[n].state = "failed") =>
                      /\ n = Len(mine)
                      /\ inv[i].pc = "done"
                      /\ inv[i].outcome.status = "thrown"
                      /\ inv[i].markdown = NoMarkdown
                      /\ inv[i].activity = Idle

\* The board was found by name and five fetches were answered; the events
\* fetch has failed and the invocation has thrown.
C21_Witness ==
    /\ pc = "server"
    /\ 1 \in Reports
    /\ Len(requests[1]) = 7
    /\ requests[1][7].op = "getActions" /\ requests[1][7].state = "failed"
    /\ \A n \in 1..6 : requests[1][n].state = "ok"
    /\ inv[1].outcome.status = "thrown"
    /\ inv[1].lists # Idle

(***************************************************************************)
(* Claims about the counters and the seeding of calculateBoardActivity      *)
(* (SpecActivity).                                                          *)
(***************************************************************************)

\* An event that changes more than the tally of its member.
Tracked(action) ==
    action.type \in {"createCard", "commentCard"} \/ IsMove(action)

\* The aggregate without the tallies of the members.
WithoutMembers(a) == [a EXCEPT !.membersActive = <<>>]

\* C22: cardsCreated is the number of createCard events, commentsAdded the
\* number of commentCard events, cardsMoved the number of updateCard events
\* with both a before-list and an after-list; the member tallies sum to the
\* number of events; every list's counter is the number of created events on
\* it plus the moves from it plus the moves to it; and the events of any other
\* kind change nothing but the tallies.
C22_CountsByType ==
    Aggregated =>
        /\ activity.cardsCreated = Cardinality(OfType(actions, "createCard"))
        /\ activity.commentsAdded = Cardinality(OfType(actions, "commentCard"))
        /\ activity.cardsMoved = Cardinality(MovesIn(actions))
        /\ SumValues(activity.membersActive, Len(activity.membersActive)) = Len(actions)
        /\ \A m \in MemberIds :
              MapGetOr0(activity.membersActive, m)
                = Cardinality({k \in 1..Len(actions) : actions[k].idMemberCreator = m})
        /\ MapKeys(activity.listActivity) \subseteq ListIds
        /\ \A l \in ListIds :
              MapGetOr0(activity.listActivity, l) = ListEvents(actions, l)
        /\ WithoutMembers(activity)
              = WithoutMembers(calculateBoardActivity(lists, cards,
                                                      SelectSeq(actions, Tracked)))

\* An event of a type that is not tracked and a move within one list: the
\* tallies sum to two, one card moved, the list counted twice.
C22_Witness ==
    /\ Aggregated
    /\ Len(actions) = 2
    /\ actions[1].type = "addMemberToCard"
    /\ IsMove(actions[2]) /\ actions[2].listBefore = actions[2].listAfter
    /\ activity.cardsMoved = 1
    /\ MapGetOr0(activity.listActivity, actions[2].listAfter) = 2

\* The cells of the flow map of a fetched list.
FlowMapOf(l) == MapGet(activity.cardFlow, l)

\* C23: after any events are processed, listActivity has a key for every
\* fetched list and cardFlow has, for every fetched list, a flow map with a
\* cell for every other fetched list; a fetched list no event counts for is
\* there with a counter of zero and cells of zero.
C23_ListsSeeded ==
    Aggregated =>
        \A i \in 1..Len(lists) :
            LET l == lists[i].id
            IN  /\ MapHas(activity.listActivity, l)
                /\ MapHas(activity.cardFlow, l)
                /\ \A j \in 1..Len(lists) :
                      j # i => MapHas(FlowMapOf(l), lists[j].id)
                /\ ListEvents(actions, l) = 0 =>
                      /\ MapGet(activity.listActivity, l) = 0
                      /\ \A j \in 1..Len(FlowMapOf(l)) : FlowMapOf(l)[j].value = 0

\* Two fetched lists and two events, all on the first list: the second list
\* is there with zero counts.
C23_Witness ==
    /\ Aggregated
    /\ Len(lists) = 2
    /\ Len(actions) = 2
    /\ ListEvents(actions, lists[1].id) = 3
    /\ ListEvents(actions, lists[2].id) = 0
    /\ MapGet(activity.listActivity, lists[2].id) = 0
    /\ MapGet(FlowMapOf(lists[2].id), lists[1].id) = 0

(***************************************************************************)
(* Claims about the card subsets, the most active list and the              *)
(* recommendations (SpecSubsets).                                           *)
(***************************************************************************)

\* The aggregate of the drawn collections has been built.
Built == pc \in {"built", "rendered"}

\* The letters in their two cases.
TwoCases ==
    {<<UpperCase[k], LowerCase[k]>> : k \in 1..Len(UpperCase)}
    \cup {<<LowerCase[k], UpperCase[k]>> : k \in 1..Len(UpperCase)}

\* The two characters are the same letter, whatever their case.
SameLetterOfAlphabet(c, d) == c = d \/ <<c, d>> \in TwoCases

\* name contains word, whatever the case of the letters of either.
ContainsWord(name, word) ==
    \E off \in 0..(Len(name) - Len(word)) :
        \A j \in 1..Len(word) : SameLetterOfAlphabet(name[off + j], word[j])

ContainsOneOf(name, words) == \E k \in 1..Len(words) : ContainsWord(name, words[k])

\* The event moves the card from a list into a list named as a completion.
MovesIntoCompletion(action, cardId) ==
    /\ IsMove(action)
    /\ action.card = cardId
    /\ ContainsOneOf(ListName[action.listAfter], completionListNames)

\* C24: the completed subset is the fetched cards, in fetch order and each
\* once, that some updateCard event with both a before-list and an after-list
\* references and moves into a list whose name contains 'Done', 'Completed'
\* or 'Finished' in any case.
C24_CompletedCards ==
    Built =>
        LET IsCompleted(card) ==
                \E k \in 1..Len(actions) : MovesIntoCompletion(actions[k], card.id)
        IN  activity.completedCards = SelectSeq(cards, IsCompleted)

\* The fetched lists with a name of work in progress.
InProgressLists ==
    {lists[i].id : i \in {n \in 1..Len(lists) :
        ContainsOneOf(lists[n].name, inProgressListNames)}}

\* C25: the in-progress subset is the fetched cards, in fetch order, whose
\* idList is a fetched list whose name contains 'In Progress', 'Doing',
\* 'Working' or 'Current Sprint' in any case, whatever the events are (the
\* subset is the one built from the same lists and cards with no event at
\* all); a card of it may be a completed card too.
C25_InProgressCards ==
    Built =>
        LET inProgress == InProgressLists
            IsInProgress(card) == card.idList \in inProgress
        IN  /\ activity.inProgressCards = SelectSeq(cards, IsInProgress)
            /\ pc = "built" =>
                  BuildAggregate(lists, cards, labels, <<>>).inProgressCards
                      = activity.inProgressCards

\* The first card is on "Doing" and an event moved it into "Done": it is in
\* both subsets, the fourth card is in progress only.
C25_Witness ==
    /\ Built
    /\ Len(cards) = 4
    /\ Len(actions) = 3
    /\ IdsOf(activity.inProgressCards) = {CardId(1), CardId(4)}
    /\ activity.inProgressCards[1].id = CardId(4)
    /\ CardId(1) \in IdsOf(activity.completedCards)
    /\ IdsOf(activity.completedCards) \cap IdsOf(activity.inProgressCards) = {CardId(1)}

\* The activity counter of a list.
Counter(l) == MapGetOr0(activity.listActivity, l)

\* The positions of the fetched lists no fetched list is more active than.
Busiest ==
    {i \in 1..Len(lists) : \A j \in 1..Len(lists) : Counter(lists[j].id) <= Counter(lists[i].id)}

\* The lists the "Most Active List" line of the full report names.
MostActiveNamed == markdown[1].body.mostActiveList

\* C26: when some fetched list has a nonzero counter the full report names
\* as most active the first fetched list no fetched list has a greater counter
\* than; when every counter is zero it names none.
C26_MostActiveList ==
    RenderedAs("full") =>
        IF \E i \in 1..Len(lists) : Counter(lists[i].id) > 0
        THEN MostActiveNamed
                = <<lists[CHOOSE i \in Busiest : \A j \in Busiest : i <= j].name>>
        ELSE MostActiveNamed = <<>>

\* The list suggestion the name of the most active list calls for: the first
\* heuristic, in the order of the checks, one of whose words the name contains.
ListSuggestionFor(name) ==
    IF ContainsOneOf(name, <<<<"b", "a", "c", "k", "l", "o", "g">>, <<"t", "o", "d", "o">>>>)
    THEN <<Suggestion("prioritize", name)>>
    ELSE IF ContainsOneOf(name, <<<<"p", "r", "o", "g", "r", "e", "s", "s">>,
                                  <<"d", "o", "i", "n", "g">>>>)
    THEN <<Suggestion("overcommitment", name)>>
    ELSE IF ContainsOneOf(name, <<<<"r", "e", "v", "i", "e", "w">>,
                                  <<"v", "a", "l", "i", "d", "a", "t", "i", "o", "n">>>>)
    THEN <<Suggestion("review", name)>>
    ELSE <<>>

\* The completion suggestion the number of completed cards calls for.
CompletionSuggestionFor(completed, type) ==
    IF completed = 0 THEN <<Suggestion("investigate", <<>>)>>
    ELSE IF completed < 3 /\ type # "year" THEN <<Suggestion("bottlenecks", <<>>)>>
    ELSE <<>>

\* C27: the Recommendations section of the summary holds at most one
\* completion suggestion (investigate with no completed card, else review
\* bottlenecks with fewer than three and a period that is not a year), then
\* at most one list suggestion, the first that matches the name of the most
\* active list in the order backlog/todo, progress/doing, review/validation:
\* never more than two lines.
C27_Recommendations ==
    RenderedAs("summary") =>
        LET mostActiveList == findMostActiveList(activity, lists)
        IN  /\ Len(Recommendations) <= 2
            /\ Cardinality(ListLines) <= 1
            /\ Cardinality({k \in 1..Len(Recommendations) :
                    Recommendations[k].line \in {"investigate", "bottlenecks"}}) <= 1
            /\ Recommendations
                  = CompletionSuggestionFor(Len(activity.completedCards), period.type)
                    \o (IF mostActiveList = NoList THEN <<>>
                        ELSE ListSuggestionFor(mostActiveList.name))

\* One card completed in a quarter, the most active list is "Review ToDo",
\* which two heuristics match: the bottleneck line and the line of the first.
C27_Witness ==
    /\ RenderedAs("summary")
    /\ Len(activity.completedCards) = 1
    /\ period.type = "Q1"
    /\ findMostActiveList(activity, lists).id = "L5"
    /\ Recommendations = <<Suggestion("bottlenecks", <<>>),
                           Suggestion("prioritize", ListName["L5"])>>

\* Three cards completed in a quarter and the most active list matches no
\* heuristic: no suggestion at all.
C27_WitnessNone ==
    /\ RenderedAs("summary")
    /\ Len(activity.completedCards) >= 3
    /\ period.type = "Q1"
    /\ findMostActiveList(activity, lists).id = "L2"
    /\ Recommendations = <<>>

(***************************************************************************)
(* Claims about the ranking of findTopCards (SpecCards).                    *)
(***************************************************************************)

\* The position at which a card was fetched.
FetchPosition(card) == CHOOSE i \in 1..Len(cards) : cards[i] = card

\* q from its last element to its first.
Reversed(q) == [i \in 1..Len(q) |-> q[Len(q) + 1 - i]]

\* The positions of the referenced cards that are not among the top cards.
CutOff == {i \in ReferencedCards : \A k \in 1..Len(topCards) : topCards[k] # cards[i]}

\* C28: top cards with the same number of referencing events stand in the
\* order of their fetch; a referenced card the limit cuts off has fewer
\* references than every top card or as many and a later place in the fetch;
\* and the events taken in another order give the same top cards.
C28_StableRanking ==
    pc = "ranked" =>
        /\ \A i, j \in 1..Len(topCards) :
              (i < j /\ References(topCards[i].id) = References(topCards[j].id))
                  => FetchPosition(topCards[i]) < FetchPosition(topCards[j])
        /\ \A c \in CutOff : \A k \in 1..Len(topCards) :
              \/ References(topCards[k].id) > References(cards[c].id)
              \/ /\ References(topCards[k].id) = References(cards[c].id)
                 /\ FetchPosition(topCards[k]) < c
        /\ findTopCards(cards, Reversed(actions), TopCardsLimit) = topCards
        /\ Len(actions) <= MaxEvents =>
              \A p \in Permutations(1..Len(actions)) :
                  findTopCards(cards, Permuted(actions, p), TopCardsLimit) = topCards

\* Seventeen cards with one event each: the first fifteen fetched are kept, in
\* the order of their fetch, the last two are cut off.
C28_Witness ==
    /\ pc = "ranked"
    /\ Len(cards) = 17
    /\ \A i \in 1..Len(cards) : References(cards[i].id) = 1
    /\ topCards = SubSeq(cards, 1, TopCardsLimit)
    /\ CutOff = {16, 17}

(***************************************************************************)
(* Claims about the checklist loop on a large board (SpecLargeBoard).       *)
(***************************************************************************)

\* The cards the checklist requests of invocation i were issued for, in the
\* order of their issue.
RECURSIVE ChecklistArgs(_, _)
ChecklistArgs(log, n) ==
    IF n = 0 THEN <<>>
    ELSE IF log[n].op = "getCardChecklists"
         THEN Append(ChecklistArgs(log, n - 1), log[n].arg)
         ELSE ChecklistArgs(log, n - 1)

\* C29: the checklist requests of an invocation are for top cards only, one
\* for each in the order of their rank and none twice: never more than 15;
\* once the invocation has returned every top card has had its request; and
\* every key of cardChecklists is the id of a top card.
C29_ChecklistScope ==
    \A i \in Reports :
        LET asked == ChecklistArgs(requests[i], Len(requests[i]))
        IN  IF inv[i].activity = Idle THEN asked = <<>>
            ELSE LET tops == inv[i].activity.topCards
                 IN  /\ Len(asked) <= Len(tops)
                     /\ Len(asked) <= 15
                     /\ \A k \in 1..Len(asked) : asked[k] = tops[k].id
                     /\ \A j, k \in 1..Len(asked) : asked[j] = asked[k] => j = k
                     /\ inv[i].pc = "done" => Len(asked) = Len(tops)
                     /\ MapKeys(inv[i].activity.cardChecklists) \subseteq IdsOf(tops)

\* Seventeen cards, sixteen of them referenced: fifteen requests, the first
\* for the last card fetched, none for the first card nor for the sixteenth;
\* two of them failed and the report was returned.
C29_Witness ==
    /\ pc = "server"
    /\ Len(cards) = 17
    /\ inv[1].pc = "done" /\ inv[1].outcome.status = "returned"
    /\ ChecklistArgs(requests[1], Len(requests[1]))
          = <<CardId(17)>> \o [k \in 1..14 |-> CardId(k + 1)]
    /\ Cardinality(FailedChecklists(1)) = 2
    /\ Cardinality(MapKeys(inv[1].activity.cardChecklists)) = 13

(***************************************************************************)
(* Claims about the board generateReport fetches (SpecServer).              *)
(***************************************************************************)

\* The positions of the fetched boards whose name contains the name asked for.
BoardsNamed(name) ==
    {k \in 1..Len(boards) : ContainsIgnoringCase(boards[k].name, name)}

\* The requests of invocation i for an operation.
RequestsFor(i, op) == {k \in 1..Len(requests[i]) : requests[i][k].op = op}

\* C30: with a boardId, generateReport issues no name search, whatever the
\* boardName, and every request it issues is for that board; it searches by
\* name only without a boardId and with a boardName, before any other
\* request, and the board it then fetches is the first fetched board whose
\* name contains the boardName in any case.
C30_BoardResolution ==
    \A i \in Reports :
        LET o == inv[i].options
        IN  /\ ~Falsy(o.boardId) =>
                /\ RequestsFor(i, "getBoards") = {}
                /\ inv[i].targetBoardId \in {Undefined, o.boardId}
                /\ \A k \in 1..Len(requests[i]) :
                      requests[i][k].op \in ReportFetches => requests[i][k].arg = o.boardId
            /\ RequestsFor(i, "getBoards") # {} =>
                /\ Falsy(o.boardId) /\ ~FalsyChars(o.boardName)
                /\ RequestsFor(i, "getBoards") = {1}
            /\ (Falsy(o.boardId) /\ inv[i].targetBoardId # Undefined) =>
                /\ requests[i][1].op = "getBoards" /\ requests[i][1].state = "ok"
                /\ BoardsNamed(o.boardName) # {}
                /\ inv[i].targetBoardId
                      = boards[CHOOSE k \in BoardsNamed(o.boardName) :
                                  \A j \in BoardsNamed(o.boardName) : k <= j].id
                /\ \A k \in 1..Len(requests[i]) :
                      requests[i][k].op \in ReportFetches
                          => requests[i][k].arg = inv[i].targetBoardId

\* The boardId of the second fetched board comes with a boardName that the
\* first fetched board matches: the second board is reported, no search made.
C30_Witness ==
    /\ pc = "server"
    /\ 1 \in Reports
    /\ Len(boards) = 2
    /\ inv[1].options.boardId = boards[2].id
    /\ BoardsNamed(inv[1].options.boardName) = {1, 2}
    /\ inv[1].pc = "done" /\ inv[1].outcome.status = "returned"
    /\ inv[1].boardInfo = boards[2]
    /\ RequestsFor(1, "getBoards") = {}

\* The boardId comes with a boardName that no fetched board matches: the
\* board of the id is reported.
C30_WitnessNoMatch ==
    /\ pc = "server"
    /\ 1 \in Reports
    /\ Len(boards) = 2
    /\ inv[1].options.boardId = boards[2].id
    /\ inv[1].options.boardName # NoSearchTerm
    /\ BoardsNamed(inv[1].options.boardName) = {}
    /\ inv[1].pc = "done" /\ inv[1].outcome.status = "returned"
    /\ inv[1].boardInfo = boards[2]

=============================================================================
